---------------------------- MODULE Spec2Model ----------------------------
(***************************************************************************)
(* A model of html_renderer/renderer.py: the HTMLRenderer composer (an     *)
(* append-only list of content blocks and the operations that render it)   *)
(* and the single-content Renderer it builds on.                           *)
(*                                                                         *)
(* Strings.  A Python str is modelled as a sequence of pieces.  A piece is *)
(* a TLA+ string holding either                                            *)
(*   - one newline, tab or carriage return, or a run of spaces,            *)
(*   - one of the characters  " \ ' & < >  on its own, or                  *)
(*   - a run of other characters (a "word").                               *)
(* Whitespace and the characters that html.escape and json.dumps rewrite   *)
(* are therefore always pieces of their own, so that escaping, whitespace  *)
(* compaction, strip() and replace() are computed piece by piece exactly   *)
(* as the library routines compute them character by character.  The       *)
(* string literals of the source are transcribed piece by piece.           *)
(***************************************************************************)
EXTENDS Integers, Sequences, FiniteSets, TLC

VARIABLES
    title,            \* HTMLRenderer.title
    custom_css,       \* HTMLRenderer.custom_css
    custom_js,        \* HTMLRenderer.custom_js
    content_blocks,   \* HTMLRenderer.content_blocks
    op,               \* the public method called last, with its arguments
    ret,              \* what that call returned
    built             \* the pieces that call assembled, before any post-processing

vars == <<title, custom_css, custom_js, content_blocks, op, ret, built>>

\* The number of blocks a composer is given.
MaxBlocks == 3

\* a character outside ASCII is written as its code point: the en dash U+2013 of the
\* block titles
EnDash == "{U+2013}"

-----------------------------------------------------------------------------
(* String helpers: str.join, str.strip, str.replace, str(int), html.escape *)

\* the space runs that occur in the literals, and the single whitespace characters
SpaceRuns ==
    {" ", "  ", "    ", "        ", "            ", "                ",
     "                    ", "                        ",
     "                            "}

WsChars == {" ", "\n", "\t", "\r"}

Whitespace == WsChars \cup SpaceRuns

IsWs(p) == p \in Whitespace

\* "".join(ss), by halves
RECURSIVE ConcatRange(_, _, _)
ConcatRange(ss, lo, hi) ==
    IF lo > hi THEN <<>>
    ELSE IF lo = hi THEN ss[lo]
    ELSE LET mid == (lo + hi) \div 2
         IN  ConcatRange(ss, lo, mid) \o ConcatRange(ss, mid + 1, hi)

Concat(ss) == ConcatRange(ss, 1, Len(ss))

RECURSIVE Join(_, _)
Join(sep, ss) ==
    IF ss = <<>> THEN <<>>
    ELSE IF Len(ss) = 1 THEN ss[1]
    ELSE ss[1] \o sep \o Join(sep, Tail(ss))

\* the position of the first piece at or after i that is not whitespace (Len(s) + 1 if
\* none), and of the last one at or before i (0 if none)
RECURSIVE FirstNonWs(_, _)
FirstNonWs(s, i) == IF i > Len(s) \/ ~IsWs(s[i]) THEN i ELSE FirstNonWs(s, i + 1)

RECURSIVE LastNonWs(_, _)
LastNonWs(s, i) == IF i < 1 \/ ~IsWs(s[i]) THEN i ELSE LastNonWs(s, i - 1)

\* str.strip()
Strip(s) == SubSeq(s, FirstNonWs(s, 1), LastNonWs(s, Len(s)))

IsAt(s, pat, i) ==
    /\ i + Len(pat) - 1 <= Len(s)
    /\ \A k \in 1..Len(pat) : s[i + k - 1] = pat[k]

\* str.replace(pat, ""): every occurrence, left to right, without overlap
RECURSIVE RemoveFrom(_, _, _)
RemoveFrom(s, pat, i) ==
    IF i > Len(s) THEN <<>>
    ELSE IF IsAt(s, pat, i) THEN RemoveFrom(s, pat, i + Len(pat))
    ELSE <<s[i]>> \o RemoveFrom(s, pat, i + 1)

Remove(s, pat) == RemoveFrom(s, pat, 1)

Digits == <<"0", "1", "2", "3", "4", "5", "6", "7", "8", "9">>

\* str(n) of a natural number
RECURSIVE DecStr(_)
DecStr(n) ==
    IF n < 10 THEN <<Digits[n + 1]>>
    ELSE DecStr(n \div 10) \o <<Digits[(n % 10) + 1]>>

\* html.escape(s, quote=True): & first, then < > " '
EscapePiece(p) ==
    CASE p = "&"  -> <<"&", "amp;">>
      [] p = "<"  -> <<"&", "lt;">>
      [] p = ">"  -> <<"&", "gt;">>
      [] p = "\"" -> <<"&", "quot;">>
      [] p = "'"  -> <<"&", "#x27;">>
      [] OTHER    -> <<p>>

\* a cell written into the markup as it is, html.escape left out
Unescaped(s) == s

html_escape(s) == Concat([i \in 1..Len(s) |-> EscapePiece(s[i])])

\* a call that returns, and a call that raises
Ok(v) == [ok |-> TRUE, val |-> v]
Raise(m) == [ok |-> FALSE, msg |-> m]

-----------------------------------------------------------------------------
(* The values the callers pass in *)

\* HTMLRenderer(title, custom_css, custom_js): the defaults, and a composer
\* whose title and custom CSS/JS hold markup characters, whitespace and a
\* character outside ASCII
Composers ==
    { [title |-> <<"Rendered", " ", "HTML">>, custom_css |-> <<>>, custom_js |-> <<>>],
      [title |-> <<"Q", "&", "A", " ", EnDash, " ", "<", "1", ">">>,
       custom_css |-> <<"p", " ", "{", "\n", "  ", "color:red", "}", "\n">>,
       custom_js |-> <<"go(", "\"", "a", "  ", "b", "\"", ");", "\n">>] }

\* the arguments of add_content(content, content_type): a question with inline
\* math, markup and runs of whitespace
ContentArgs ==
    { [content |-> <<" ", "What", " ", "is", "  ", "$x$?", "\n", "\n", "<", "b", ">", "a",
                     "&", "b", "<", "/b", ">", "\t">>,
       content_type |-> "question"] }

\* A go.Figure is known to this code by what fig.to_dict() and json.dumps of it do:
\* they return the figure's JSON text, or one of them raises.  None has no to_dict
\* (AttributeError); a figure built on numpy arrays is not JSON serializable (TypeError).
FigBar ==
    [py |-> "Figure",
     json |-> <<"{", "\"", "data", "\"", ":[{", "\"", "x", "\"", ":[", "\"", "A", "\"",
                ",", "\"", "B", " ", " ", "C", "\"", "],", "\"", "y", "\"", ":[1,2],",
                "\"", "type", "\"", ":", "\"", "bar", "\"", "}],", "\"", "layout", "\"",
                ":{", "\"", "height", "\"", ":200}}">>]
FigNone == [py |-> "None"]
FigNdarray == [py |-> "FigureOfNdarray"]

\* json.dumps(fig.to_dict(), separators=(',', ':'))
FigureJson(fig) ==
    CASE fig.py = "Figure" -> Ok(fig.json)
      [] fig.py = "None" ->
            Raise(<<"'", "NoneType", "'", " ", "object", " ", "has", " ", "no", " ",
                    "attribute", " ", "'", "to_dict", "'">>)
      [] OTHER ->
            Raise(<<"Object", " ", "of", " ", "type", " ", "ndarray", " ", "is", " ",
                    "not", " ", "JSON", " ", "serializable">>)

\* A dict is a sequence of entries in insertion order; a value is held as its JSON text.
Entry(k, v) == [key |-> k, val |-> v]
JTrue == <<"true">>
JFalse == <<"false">>

\* the optional config argument of add_plotly_figure: None, or a dict
NoConfig == [given |-> FALSE, dict |-> <<>>]
Given(d) == [given |-> TRUE, dict |-> d]
\* the arguments of add_plotly_figure(fig, config)
FigureArgs ==
    { [fig |-> FigBar,
       config |-> Given(<<Entry("scrollZoom", JTrue), Entry("responsive", JFalse)>>)],
      [fig |-> FigNdarray, config |-> NoConfig] }

\* A table cell is a str or an int; a row is a list of cells, or a value that
\* cannot be iterated (an int).
StrCell(s) == [py |-> "str", v |-> s]
IntCell(n) == [py |-> "int", v |-> n]
Row(cells) == [py |-> "list", cells |-> cells]
IntRow == [py |-> "int", cells |-> <<>>]

NoHeaders == [given |-> FALSE, list |-> <<>>]
Headers(h) == [given |-> TRUE, list |-> h]

\* the arguments of add_table(data, headers)
TableArgs ==
    { [data |-> <<Row(<<IntCell(1), StrCell(<<"<", "b", ">">>)>>),
                  Row(<<StrCell(<<"a", "&", "\"", "'">>), IntCell(12)>>)>>,
       headers |-> Headers(<<StrCell(<<"Id">>), StrCell(<<"<", "Val", ">">>)>>)],
      [data |-> <<Row(<<StrCell(<<"ok">>)>>), IntRow>>, headers |-> NoHeaders] }

\* str(cell)
Str(cell) == IF cell.py = "int" THEN DecStr(cell.v) ELSE cell.v

-----------------------------------------------------------------------------
(* The string literals of renderer.py, piece by piece *)

\* HTMLRenderer._render_full_html, lines 498-508
DocOpenLit ==
    <<"<", "!DOCTYPE", " ", "html", ">", "\n", "<", "html", " ", "lang=", "\"", "en", "\"",
      ">", "\n", "<", "head", ">", "\n", "    ", "<", "meta", " ", "charset=", "\"", "UTF-8",
      "\"", ">", "\n", "    ", "<", "meta", " ", "name=", "\"", "viewport", "\"", " ",
      "content=", "\"", "width=device-width,", " ", "initial-scale=1.0", "\"", ">", "\n",
      "    ", "<", "title", ">">>

\* HTMLRenderer._render_full_html, lines 498-508
TitleCloseLit ==
    <<"<", "/title", ">", "\n", "    ">>

\* HTMLRenderer._render_full_html, lines 498-508
BodyOpenLit ==
    <<"\n", "<", "/head", ">", "\n", "<", "body", ">", "\n", "    ", "<", "div", " ",
      "class=", "\"", "main-container", "\"", ">", "\n">>

\* HTMLRenderer._render_full_html, lines 527-531
BodyCloseLit ==
    <<"\n", "    ", "<", "/div", ">", "\n", "    ">>

\* HTMLRenderer._render_full_html, lines 527-531
DocCloseLit ==
    <<"\n", "<", "/body", ">", "\n", "<", "/html", ">">>

\* HTMLRenderer._render_full_html, lines 521-523
ErrorOpenLit ==
    <<"<", "div", " ", "style=", "\"", "color:", " ", "red;", " ", "padding:", " ", "10px;",
      " ", "border:", " ", "1px", " ", "solid", " ", "red;", " ", "border-radius:", " ",
      "4px;", " ", "margin:", " ", "10px", " ", "0;", "\"", ">", "\n",
      "                    ", "Error", " ", "rendering", " ", "block", " ">>

\* HTMLRenderer._render_full_html, lines 521-523
ErrorSepLit ==
    <<":", " ">>

\* HTMLRenderer._render_full_html, lines 521-523
ErrorCloseLit ==
    <<"\n", "                ", "<", "/div", ">">>

\* HTMLRenderer.generate_table_html, lines 553-553
TableOpenLit ==
    <<"<", "div", " ", "class=", "\"", "table-container", "\"", ">">>

\* HTMLRenderer._render_plotly_block, lines 577-580
PlotDivOpenLit ==
    <<"\n", "        ", "<", "div", " ", "class=", "\"", "plotly-container", "\"", ">", "\n",
      "            ", "<", "div", " ", "id=", "\"">>

\* HTMLRenderer._render_plotly_block, lines 577-580
PlotDivCloseLit ==
    <<"\"", " ", "class=", "\"", "loading", "\"", ">", "Loading", " ", "chart...", "<",
      "/div", ">", "\n", "        ", "<", "/div", ">">>

\* HTMLRenderer._get_css, lines 587-588
KatexCssOpenLit ==
    <<"\n", "    ", "<", "link", " ", "rel=", "\"", "stylesheet", "\"", " ", "href=", "\"",
      "https://cdnjs.cloudflare.com/ajax/libs/KaTeX/">>

\* HTMLRenderer._get_css, lines 587-588
KatexCssCloseLit ==
    <<"/katex.min.css", "\"", ">">>

\* HTMLRenderer._get_css, lines 590-648
StyleLit ==
    <<"\n", "    ", "<", "style", ">", "\n", "        ", "body", " ", "{", "\n",
      "            ", "font-family:", " ", "'", "Segoe", " ", "UI", "'", ",", " ", "Tahoma,",
      " ", "Geneva,", " ", "Verdana,", " ", "sans-serif;", "\n", "            ", "margin:",
      " ", "0;", "\n", "            ", "padding:", " ", "16px;", "\n", "            ",
      "background-color:", " ", "#f4f4f9;", "\n", "            ", "color:", " ", "#333;",
      "\n", "        ", "}", "\n", "        ", ".main-container", " ", "{", "\n",
      "            ", "max-width:", " ", "800px;", "\n", "            ", "margin:", " ", "0",
      " ", "auto;", "\n", "            ", "background-color:", " ", "white;", "\n",
      "            ", "padding:", " ", "20px;", "\n", "            ", "border-radius:", " ",
      "8px;", "\n", "            ", "box-shadow:", " ", "0", " ", "2px", " ", "8px", " ",
      "rgba(0,0,0,0.1);", "\n", "        ", "}", "\n", "        ", ".content-container", " ",
      "{", "\n", "            ", "margin-bottom:", " ", "16px;", "\n", "            ",
      "padding:", " ", "12px;", "\n", "            ", "border-radius:", " ", "6px;", "\n",
      "            ", "border:", " ", "1px", " ", "solid", " ", "#e0e0e0;", "\n", "        ",
      "}", "\n", "        ", ".plotly-container", " ", "{", "\n", "            ", "margin:",
      " ", "16px", " ", "0;", "\n", "            ", "padding:", " ", "12px;", "\n",
      "            ", "background-color:", " ", "#fafafa;", "\n", "            ",
      "border-radius:", " ", "4px;", "\n", "            ", "border:", " ", "1px", " ",
      "solid", " ", "#e8e8e8;", "\n", "        ", "}", "\n", "        ", ".table-container",
      " ", "{", "\n", "            ", "margin:", " ", "16px", " ", "0;", "\n", "        ",
      "}", "\n", "        ", "table", " ", "{", "\n", "            ", "width:", " ", "100%;",
      "\n", "            ", "border-collapse:", " ", "collapse;", "\n", "        ", "}",
      "\n", "        ", "th,", " ", "td", " ", "{", "\n", "            ", "border:", " ",
      "1px", " ", "solid", " ", "#ddd;", "\n", "            ", "padding:", " ", "8px;", "\n",
      "            ", "text-align:", " ", "left;", "\n", "        ", "}", "\n", "        ",
      "th", " ", "{", "\n", "            ", "background-color:", " ", "#f2f2f2;", "\n",
      "        ", "}", "\n", "        ", ".loading", " ", "{", "\n", "            ",
      "text-align:", " ", "center;", "\n", "            ", "padding:", " ", "20px;", "\n",
      "            ", "color:", " ", "#666;", "\n", "            ", "font-size:", " ",
      "14px;", "\n", "        ", "}", "\n", "        ", ".plotly-div", " ", "{", "\n",
      "            ", "aspect-ratio:", " ", "16", " ", "/", " ", "9;", "\n", "            ",
      "width:", " ", "100%;", "\n", "            ", "min-height:", " ", "240px;", "\n",
      "            ", "height:", " ", "auto", " ", "!important;", "\n", "        ", "}",
      "\n", "        ">>

\* HTMLRenderer._get_css, lines 590-648
StyleCloseLit ==
    <<"\n", "    ", "<", "/style", ">">>

\* HTMLRenderer._get_js, lines 655-657
KatexJsOpenLit ==
    <<"\n", "    ", "<", "script", " ", "src=", "\"",
      "https://cdnjs.cloudflare.com/ajax/libs/KaTeX/">>

\* HTMLRenderer._get_js, lines 655-657
KatexJsMidLit ==
    <<"/katex.min.js", "\"", ">", "<", "/script", ">", "\n", "    ", "<", "script", " ",
      "src=", "\"", "https://cdnjs.cloudflare.com/ajax/libs/KaTeX/">>

\* HTMLRenderer._get_js, lines 655-657
KatexJsCloseLit ==
    <<"/contrib/auto-render.min.js", "\"", ">", "<", "/script", ">">>

\* HTMLRenderer._get_js, lines 660-661
PlotlyLibOpenLit ==
    <<"\n", "    ", "<", "script", " ", "src=", "\"",
      "https://cdnjs.cloudflare.com/ajax/libs/plotly.js/">>

\* HTMLRenderer._get_js, lines 660-661
PlotlyLibCloseLit ==
    <<"/plotly.min.js", "\"", ">", "<", "/script", ">">>

\* HTMLRenderer._get_js, lines 663-665
ScriptOpenLit ==
    <<"\n", "    ", "<", "script", ">", "\n", "        ", "document.addEventListener(", "\"",
      "DOMContentLoaded", "\"", ",", " ", "function()", " ", "{">>

\* HTMLRenderer._get_js, lines 668-679
KatexCallLit ==
    <<"\n", "            ", "if", " ", "(typeof", " ", "renderMathInElement", " ", "!==",
      " ", "\"", "undefined", "\"", ")", " ", "{", "\n", "                ",
      "renderMathInElement(document.body,", " ", "{", "\n", "                    ",
      "delimiters:", " ", "[", "\n", "                        ", "{left:", " ", "\"", "$$",
      "\"", ",", " ", "right:", " ", "\"", "$$", "\"", ",", " ", "display:", " ", "true},",
      "\n", "                        ", "{left:", " ", "\"", "$", "\"", ",", " ", "right:",
      " ", "\"", "$", "\"", ",", " ", "display:", " ", "false},", "\n",
      "                        ", "{left:", " ", "\"", "\\", "(", "\"", ",", " ", "right:",
      " ", "\"", "\\", ")", "\"", ",", " ", "display:", " ", "false},", "\n",
      "                        ", "{left:", " ", "\"", "\\", "[", "\"", ",", " ", "right:",
      " ", "\"", "\\", "]", "\"", ",", " ", "display:", " ", "true}", "\n",
      "                    ", "],", "\n", "                    ", "throwOnError:", " ",
      "false", "\n", "                ", "});", "\n", "            ", "}">>

\* HTMLRenderer._get_js, lines 685-686
CustomJsIndentLit ==
    <<"\n", "            ">>

\* HTMLRenderer._get_js, lines 688-690
ScriptCloseLit ==
    <<"\n", "        ", "});", "\n", "    ", "<", "/script", ">">>

\* HTMLRenderer._get_all_plotly_js, lines 714-727: the text between the holes of the f-string
PlotJsLit ==
    <<
      <<"\n", "                ", "try", " ", "{", "\n", "                    ", "if", " ",
        "(typeof", " ", "Plotly", " ", "!==", " ", "\"", "undefined", "\"", ")", " ", "{",
        "\n", "                        ", "const", " ", "plotlyData_">>,
      <<" ", "=", " ">>,
      <<";", "\n", "                        ", "const", " ", "plotlyConfig_">>,
      <<" ", "=", " ">>,
      <<";", "\n", "                        ", "Plotly.newPlot(", "\"">>,
      <<"\"", ",", " ", "plotlyData_">>,
      <<".data,", " ", "plotlyData_">>,
      <<".layout,", " ", "plotlyConfig_">>,
      <<");", "\n", "                    ", "}", " ", "else", " ", "{", "\n",
        "                        ", "console.error(", "\"", "Plotly", " ", "library", " ",
        "not", " ", "loaded", "\"", ");", "\n", "                        ",
        "document.getElementById(", "\"">>,
      <<"\"", ").innerHTML", " ", "=", " ", "\"", "<", "div", " ", "style=", "\\", "\"",
        "text-align:center;padding:20px;color:#666;font-size:12px;", "\\", "\"", ">", "Plotly",
        " ", "library", " ", "not", " ", "available", "<", "/div", ">", "\"", ";", "\n",
        "                    ", "}", "\n", "                ", "}", " ", "catch", " ", "(e)",
        " ", "{", "\n", "                    ", "console.error(", "\"", "Error", " ",
        "rendering", " ", "plotly", " ", "chart", " ">>,
      <<":", "\"", ",", " ", "e);", "\n", "                    ", "document.getElementById(",
        "\"">>,
      <<"\"", ").innerHTML", " ", "=", " ", "\"", "<", "div", " ", "style=", "\\", "\"",
        "text-align:center;padding:20px;color:#666;font-size:12px;", "\\", "\"", ">", "Error",
        " ", "rendering", " ", "chart", "<", "/div", ">", "\"", ";", "\n", "                ",
        "}">>
    >>

\* HTMLRenderer._get_all_plotly_js, lines 730-732: the text between the holes of the f-string
PlotErrLit ==
    <<
      <<"\n", "                ", "console.error(", "\"", "Error", " ", "preparing", " ",
        "chart", " ">>,
      <<":", "\"", ",", " ", "\"">>,
      <<"\"", ");", "\n", "                ", "document.getElementById(", "\"", "plotly-div-">>,
      <<"\"", ").innerHTML", " ", "=", " ", "\"", "<", "div", " ", "style=", "\\", "\"",
        "text-align:center;padding:20px;color:#666;font-size:12px;", "\\", "\"", ">", "Chart",
        " ", "preparation", " ", "failed", "<", "/div", ">", "\"", ";">>
    >>

\* HTMLRenderer._get_all_plotly_js, lines 735-737
ResizeOpenLit ==
    <<"\n", "        ", "window.addEventListener(", "\"", "resize", "\"", ",", " ",
      "function()", " ", "{", "\n", "            ", "if", " ", "(typeof", " ", "Plotly", " ",
      "!==", " ", "\"", "undefined", "\"", " ", "&", "&", " ", "Plotly.Plots)", " ", "{">>

\* HTMLRenderer._get_all_plotly_js, lines 742-747: the text between the holes of the f-string
ResizeLit ==
    <<
      <<"\n", "                ", "try", " ", "{", "\n", "                    ",
        "Plotly.Plots.resize(", "\"">>,
      <<"\"", ");", "\n", "                ", "}", " ", "catch", " ", "(e)", " ", "{", "\n",
        "                    ", "console.warn(", "\"", "Error", " ", "resizing", " ", "chart",
        " ">>,
      <<":", "\"", ",", " ", "e);", "\n", "                ", "}">>
    >>

\* HTMLRenderer._get_all_plotly_js, lines 749-751
ResizeCloseLit ==
    <<"\n", "            ", "}", "\n", "        ", "});">>

\* HTMLRenderer.render_as_blocks, lines 453-453
BlockErrorOpenLit ==
    <<"<", "div", " ", "style=", "\"", "color:", " ", "red;", " ", "padding:", " ", "10px;",
      " ", "border:", " ", "1px", " ", "solid", " ", "red;", " ", "border-radius:", " ",
      "4px;", "\"", ">", "Error", " ", "rendering", " ", "block", " ">>

\* Renderer._get_html_header, lines 82-87
R_HeaderLit ==
    <<"<", "!DOCTYPE", " ", "html", ">", "\n", "<", "html", " ", "lang=", "\"", "en", "\"",
      ">", "\n", "<", "head", ">", "\n", "    ", "<", "meta", " ", "charset=", "\"", "UTF-8",
      "\"", ">", "\n", "    ", "<", "meta", " ", "name=", "\"", "viewport", "\"", " ",
      "content=", "\"", "width=device-width,", " ", "initial-scale=1.0", "\"", ">", "\n",
      "    ", "<", "title", ">">>

\* Renderer._get_css_links, lines 95-96
R_KatexCssOpenLit ==
    <<"\n", "    ", "<", "link", " ", "rel=", "\"", "stylesheet", "\"", " ", "href=", "\"",
      "https://cdnjs.cloudflare.com/ajax/libs/KaTeX/">>

\* Renderer._get_css_links, lines 95-96
R_KatexCssCloseLit ==
    <<"/katex.min.css", "\"", ">">>

\* Renderer._get_css_links, lines 99-161: the text between the holes of the f-string
R_StyleLit ==
    <<
      <<"\n", "    ", "<", "style", ">", "\n", "        ", "body", " ", "{", "\n",
        "            ", "font-family:", " ", "'", "Segoe", " ", "UI", "'", ",", " ", "Tahoma,",
        " ", "Geneva,", " ", "Verdana,", " ", "sans-serif;", "\n", "            ", "margin:",
        " ", "0;", "\n", "            ", "padding:", " ", "8px;", "\n", "            ",
        "line-height:", " ", "1.4;", "\n", "            ", "color:", " ", "#333;", "\n",
        "            ", "background-color:", " ", "transparent;", "\n", "            ",
        "font-size:", " ", "14px;", "\n", "        ", "}", "\n", "        ",
        ".content-container", " ", "{", "\n", "            ", "max-width:", " ", "100%;", "\n",
        "            ", "margin:", " ", "0;", "\n", "            ", "padding:", " ", "12px;",
        "\n", "            ", "background-color:", " ", "white;", "\n", "            ",
        "border-radius:", " ", "6px;", "\n", "            ", "box-shadow:", " ", "0", " ",
        "1px", " ", "4px", " ", "rgba(0,0,0,0.1);", "\n", "            ", "border:", " ",
        "1px", " ", "solid", " ", "#e0e0e0;", "\n", "        ", "}", "\n", "        ">>,
      <<"\n", "        ", ".plotly-container", " ", "{", "\n", "            ", "margin:", " ",
        "8px", " ", "0;", "\n", "            ", "padding:", " ", "8px;", "\n", "            ",
        "background-color:", " ", "#fafafa;", "\n", "            ", "border-radius:", " ",
        "4px;", "\n", "            ", "border:", " ", "1px", " ", "solid", " ", "#e8e8e8;",
        "\n", "        ", "}", "\n", "        ", ".katex-display", " ", "{", "\n",
        "            ", "margin:", " ", "0.8em", " ", "0;", "\n", "        ", "}", "\n",
        "        ", ".katex", " ", "{", "\n", "            ", "font-size:", " ", "1em;", "\n",
        "        ", "}", "\n", "        ", ".content-text", " ", "{", "\n", "            ",
        "font-size:", " ", "14px;", "\n", "            ", "line-height:", " ", "1.5;", "\n",
        "            ", "margin:", " ", "0;", "\n", "        ", "}", "\n", "        ",
        ".content-text", " ", "h3", " ", "{", "\n", "            ", "margin:", " ", "0", " ",
        "0", " ", "8px", " ", "0;", "\n", "            ", "font-size:", " ", "14px;", "\n",
        "            ", "font-weight:", " ", "600;", "\n", "        ", "}", "\n", "        ",
        ".content-text", " ", "p", " ", "{", "\n", "            ", "margin:", " ", "6px", " ",
        "0;", "\n", "        ", "}", "\n", "        ", ".loading", " ", "{", "\n",
        "            ", "text-align:", " ", "center;", "\n", "            ", "padding:", " ",
        "8px;", "\n", "            ", "color:", " ", "#666;", "\n", "            ",
        "font-size:", " ", "10px;", "\n", "        ", "}", "\n", "        ", "/*", " ",
        "Ensure", " ", "charts", " ", "fit", " ", "well", " ", "in", " ", "compact", " ",
        "space", " ", "*/", "\n", "        ", "#plotly-div", " ", "{", "\n", "            ",
        "/*", " ", "Maintain", " ", "a", " ", "16:9", " ", "aspect", " ", "ratio", " ",
        "while", " ", "remaining", " ", "responsive", " ", "*/", "\n", "            ",
        "aspect-ratio:", " ", "16", " ", "/", " ", "9;", "\n", "            ", "width:", " ",
        "100%;", "\n", "            ", "min-height:", " ", "180px;", "\n", "            ",
        "height:", " ", "auto", " ", "!important;", "\n", "        ", "}", "\n", "        ">>
    >>

\* Renderer._get_css_links, lines 99-161
R_StyleCloseLit ==
    <<"\n", "    ", "<", "/style", ">">>

\* Renderer._get_content_type_styles, lines 169-190
R_QuestionStyleLit ==
    <<"\n", "        ", ".content-container", " ", "{", "\n", "            ", "border-left:",
      " ", "3px", " ", "solid", " ", "#007bff;", "\n", "            ", "background:", " ",
      "linear-gradient(135deg,", " ", "#f8f9ff", " ", "0%,", " ", "#ffffff", " ", "100%);",
      "\n", "        ", "}", "\n", "        ", ".content-text", " ", "{", "\n",
      "            ", "font-weight:", " ", "500;", "\n", "            ", "color:", " ",
      "#2c3e50;", "\n", "        ", "}", "\n", "        ", ".content-container::before", " ",
      "{", "\n", "            ", "content:", " ", "\"", "Q", "\"", ";", "\n", "            ",
      "display:", " ", "inline-block;", "\n", "            ", "font-size:", " ", "10px;",
      "\n", "            ", "color:", " ", "#007bff;", "\n", "            ", "font-weight:",
      " ", "bold;", "\n", "            ", "background:", " ", "#007bff;", "\n",
      "            ", "color:", " ", "white;", "\n", "            ", "padding:", " ", "2px",
      " ", "6px;", "\n", "            ", "border-radius:", " ", "3px;", "\n", "            ",
      "margin-bottom:", " ", "6px;", "\n", "            ", "margin-right:", " ", "6px;",
      "\n", "        ", "}">>

\* Renderer._get_content_type_styles, lines 192-211
R_OptionStyleLit ==
    <<"\n", "        ", ".content-container", " ", "{", "\n", "            ", "border-left:",
      " ", "3px", " ", "solid", " ", "#28a745;", "\n", "            ", "background:", " ",
      "linear-gradient(135deg,", " ", "#f8fff8", " ", "0%,", " ", "#ffffff", " ", "100%);",
      "\n", "        ", "}", "\n", "        ", ".content-text", " ", "{", "\n",
      "            ", "color:", " ", "#2c3e50;", "\n", "        ", "}", "\n", "        ",
      ".content-container::before", " ", "{", "\n", "            ", "content:", " ", "\"",
      "A", "\"", ";", "\n", "            ", "display:", " ", "inline-block;", "\n",
      "            ", "font-size:", " ", "10px;", "\n", "            ", "color:", " ",
      "white;", "\n", "            ", "font-weight:", " ", "bold;", "\n", "            ",
      "background:", " ", "#28a745;", "\n", "            ", "padding:", " ", "2px", " ",
      "6px;", "\n", "            ", "border-radius:", " ", "3px;", "\n", "            ",
      "margin-bottom:", " ", "6px;", "\n", "            ", "margin-right:", " ", "6px;",
      "\n", "        ", "}">>

\* Renderer._get_content_type_styles, lines 213-216
R_GeneralStyleLit ==
    <<"\n", "        ", ".content-container", " ", "{", "\n", "            ", "border-left:",
      " ", "3px", " ", "solid", " ", "#6c757d;", "\n", "        ", "}">>

\* Renderer._get_body_content, lines 222-222
R_ContainerOpenLit ==
    <<"    ", "<", "div", " ", "class=", "\"", "content-container", "\"", ">">>

\* Renderer._get_body_content, lines 223-223
R_TextOpenLit ==
    <<"        ", "<", "div", " ", "class=", "\"", "content-text", "\"", ">">>

\* Renderer._get_body_content, lines 224-224
R_ContentIndentLit ==
    <<"            ">>

\* Renderer._get_body_content, lines 225-225
R_TextCloseLit ==
    <<"        ", "<", "/div", ">">>

\* Renderer._get_body_content, lines 229-229
R_PlotContainerOpenLit ==
    <<"        ", "<", "div", " ", "class=", "\"", "plotly-container", "\"", ">">>

\* Renderer._get_body_content, lines 230-230
R_PlotDivLit ==
    <<"            ", "<", "div", " ", "id=", "\"", "plotly-div", "\"", " ", "class=", "\"",
      "loading", "\"", ">", "Loading", " ", "chart...", "<", "/div", ">">>

\* Renderer._get_body_content, lines 231-231
R_PlotContainerCloseLit ==
    <<"        ", "<", "/div", ">">>

\* Renderer._get_body_content, lines 233-233
R_ContainerCloseLit ==
    <<"    ", "<", "/div", ">">>

\* Renderer._get_js_scripts, lines 242-244
R_KatexJsOpenLit ==
    <<"\n", "    ", "<", "script", " ", "src=", "\"",
      "https://cdnjs.cloudflare.com/ajax/libs/KaTeX/">>

\* Renderer._get_js_scripts, lines 242-244
R_KatexJsMidLit ==
    <<"/katex.min.js", "\"", ">", "<", "/script", ">", "\n", "    ", "<", "script", " ",
      "src=", "\"", "https://cdnjs.cloudflare.com/ajax/libs/KaTeX/">>

\* Renderer._get_js_scripts, lines 242-244
R_KatexJsCloseLit ==
    <<"/contrib/auto-render.min.js", "\"", ">", "<", "/script", ">">>

\* Renderer._get_js_scripts, lines 248-249
R_PlotlyLibOpenLit ==
    <<"\n", "    ", "<", "script", " ", "src=", "\"",
      "https://cdnjs.cloudflare.com/ajax/libs/plotly.js/">>

\* Renderer._get_js_scripts, lines 248-249
R_PlotlyLibCloseLit ==
    <<"/plotly.min.js", "\"", ">", "<", "/script", ">">>

\* Renderer._get_js_scripts, lines 252-254
R_ScriptOpenLit ==
    <<"\n", "    ", "<", "script", ">", "\n", "        ", "document.addEventListener(", "\"",
      "DOMContentLoaded", "\"", ",", " ", "function()", " ", "{">>

\* Renderer._get_js_scripts, lines 258-268
R_KatexCallLit ==
    <<"\n", "            ", "renderMathInElement(document.body,", " ", "{", "\n",
      "                ", "delimiters:", " ", "[", "\n", "                    ", "{left:",
      " ", "\"", "$$", "\"", ",", " ", "right:", " ", "\"", "$$", "\"", ",", " ", "display:",
      " ", "true},", "\n", "                    ", "{left:", " ", "\"", "$", "\"", ",", " ",
      "right:", " ", "\"", "$", "\"", ",", " ", "display:", " ", "false},", "\n",
      "                    ", "{left:", " ", "\"", "\\", "(", "\"", ",", " ", "right:", " ",
      "\"", "\\", ")", "\"", ",", " ", "display:", " ", "false},", "\n",
      "                    ", "{left:", " ", "\"", "\\", "[", "\"", ",", " ", "right:", " ",
      "\"", "\\", "]", "\"", ",", " ", "display:", " ", "true}", "\n", "                ",
      "],", "\n", "                ", "throwOnError:", " ", "false,", "\n",
      "                ", "errorColor:", " ", "\"", "#cc0000", "\"", "\n", "            ",
      "});">>

\* Renderer._get_js_scripts, lines 276-277
R_CustomJsIndentLit ==
    <<"\n", "            ">>

\* Renderer._get_js_scripts, lines 279-281
R_ScriptCloseLit ==
    <<"\n", "        ", "});", "\n", "    ", "<", "/script", ">">>

\* Renderer._generate_plotly_js, lines 311-345: the text between the holes of the f-string
R_PlotJsLit ==
    <<
      <<"\n", "            ", "try", " ", "{", "\n", "                ", "const", " ",
        "plotlyData", " ", "=", " ">>,
      <<";", "\n", "                ", "const", " ", "plotlyConfig", " ", "=", " ">>,
      <<";", "\n", "                ", "\n", "                ", "if", " ",
        "(plotlyData.layout)", " ", "{", "\n", "                    ",
        "plotlyData.layout.margin", " ", "=", " ", "plotlyData.layout.margin", " ", "||", " ",
        "{};", "\n", "                    ", "Object.assign(plotlyData.layout.margin,", " ",
        "{l:", " ", "40,", " ", "r:", " ", "20,", " ", "t:", " ", "30,", " ", "b:", " ",
        "40});", "\n", "                    ", "plotlyData.layout.height", " ", "=", " ",
        "200;", "\n", "                    ", "plotlyData.layout.font", " ", "=", " ",
        "plotlyData.layout.font", " ", "||", " ", "{};", "\n", "                    ",
        "plotlyData.layout.font.size", " ", "=", " ", "11;", "\n", "                    ",
        "if", " ", "(plotlyData.layout.showlegend", " ", "!==", " ", "false)", " ", "{", "\n",
        "                        ", "plotlyData.layout.legend", " ", "=", " ",
        "plotlyData.layout.legend", " ", "||", " ", "{};", "\n", "                        ",
        "Object.assign(plotlyData.layout.legend,", " ", "{", "\n",
        "                            ", "font:", " ", "{size:", " ", "10},", "\n",
        "                            ", "orientation:", " ", "\"", "h", "\"", ",", "\n",
        "                            ", "y:", " ", "-0.2", "\n", "                        ",
        "});", "\n", "                    ", "}", "\n", "                ", "}", "\n",
        "                ", "\n", "                ", "Plotly.newPlot(", "\"", "plotly-div",
        "\"", ",", " ", "plotlyData.data,", " ", "plotlyData.layout,", " ", "plotlyConfig);",
        "\n", "                ", "\n", "                ", "window.addEventListener(", "\"",
        "resize", "\"", ",", " ", "function()", " ", "{", "\n", "                    ", "if",
        " ", "(typeof", " ", "Plotly", " ", "!==", " ", "\"", "undefined", "\"", " ", "&", "&",
        " ", "Plotly.Plots)", " ", "{", "\n", "                        ",
        "Plotly.Plots.resize(", "\"", "plotly-div", "\"", ");", "\n", "                    ",
        "}", "\n", "                ", "});", "\n", "            ", "}", " ", "catch", " ",
        "(error)", " ", "{", "\n", "                ", "console.error(", "\"", "Error", " ",
        "rendering", " ", "Plotly", " ", "chart:", "\"", ",", " ", "error);", "\n",
        "                ", "const", " ", "plotlyDiv", " ", "=", " ",
        "document.getElementById(", "\"", "plotly-div", "\"", ");", "\n", "                ",
        "if", " ", "(plotlyDiv)", " ", "{", "\n", "                    ",
        "plotlyDiv.innerHTML", " ", "=", " ", "\"", "<", "div", " ", "style=", "\\", "\"",
        "text-align:center;padding:20px;color:#666;font-size:12px;", "\\", "\"", ">", "Chart",
        " ", "unavailable", "<", "/div", ">", "\"", ";", "\n", "                ", "}", "\n",
        "            ", "}">>
    >>

\* Renderer._generate_plotly_js, lines 348-353: the text between the holes of the f-string
R_PlotErrLit ==
    <<
      <<"\n", "            ", "console.error(", "\"", "Error", " ", "preparing", " ", "Plotly",
        " ", "chart:", "\"", ",", " ", "\"">>,
      <<"\"", ");", "\n", "            ", "const", " ", "plotlyDiv", " ", "=", " ",
        "document.getElementById(", "\"", "plotly-div", "\"", ");", "\n", "            ", "if",
        " ", "(plotlyDiv)", " ", "{", "\n", "                ", "plotlyDiv.innerHTML", " ",
        "=", " ", "\"", "<", "div", " ", "style=", "\\", "\"",
        "text-align:center;padding:20px;color:#666;font-size:12px;", "\\", "\"", ">", "Chart",
        " ", "generation", " ", "failed", "<", "/div", ">", "\"", ";", "\n", "            ",
        "}">>
    >>

\* Renderer._get_html_footer, lines 357-358
R_FooterLit ==
    <<"<", "/body", ">", "\n", "<", "/html", ">">>
-----------------------------------------------------------------------------
(* The library versions, and the parts a document is assembled from *)

katex_version == "0.16.8"
plotly_version == "2.26.0"

HasKey(d, k) == \E j \in 1..Len(d) : d[j].key = k
ValueOf(d, k) == d[CHOOSE j \in 1..Len(d) : d[j].key = k].val

\* {**a, **b}: the keys of a in a's order, then the new keys of b in b's order;
\* on a key of both, b's value
DictMerge(a, b) ==
    [j \in 1..Len(a) |-> Entry(a[j].key, IF HasKey(b, a[j].key) THEN ValueOf(b, a[j].key)
                                         ELSE a[j].val)]
    \o SelectSeq(b, LAMBDA e : ~HasKey(a, e.key))

\* json.dumps(d, separators=(',', ':')) of a dict
DictJson(d) ==
    <<"{">> \o Join(<<",">>, [j \in 1..Len(d) |-> <<"\"", d[j].key, "\"", ":">> \o d[j].val])
    \o <<"}">>

\* str(e).replace('"', '\\"')
JsQuote(msg) ==
    Concat([j \in 1..Len(msg) |-> IF msg[j] = "\"" THEN <<"\\", "\"">> ELSE <<msg[j]>>])

\* One piece of output: what it is, the 0-based position of the block it was made
\* for (-1 for the page shell), its text, and the value it embeds, if any.
Part(tag, idx, text, data) == [tag |-> tag, idx |-> idx, text |-> text, data |-> data]

Shell(tag, text) == Part(tag, -1, text, <<>>)

\* the string a list of parts makes
Text(parts) == Concat([k \in 1..Len(parts) |-> parts[k].text])

-----------------------------------------------------------------------------
(* Renderer: one self-contained document for one piece of content *)

\* Renderer.__init__: the defaults of the keyword arguments
RendererOf(content, t) ==
    [content |-> content, need_latex |-> FALSE, need_plotly |-> FALSE,
     plotly_figure |-> FigNone, plotly_config |-> <<>>, custom_css |-> <<>>,
     custom_js |-> <<>>, title |-> t, content_type |-> "general"]

\* the truth value of self.plotly_figure: None is false, a figure is true
HasFigure(r) == r.plotly_figure.py # "None"

\* Renderer._get_html_header
R_get_html_header(r) ==
    <<Shell("doc_open", R_HeaderLit), Shell("title", html_escape(r.title)),
      Shell("title_close", <<"<", "/title", ">">>)>>

\* the styles had the final else been the option branch
R_styles_option_else(r) ==
    IF r.content_type = "question" THEN R_QuestionStyleLit ELSE R_OptionStyleLit

\* Renderer._get_content_type_styles
R_get_content_type_styles(r) ==
    IF r.content_type = "question" THEN R_QuestionStyleLit
    ELSE IF r.content_type = "option" THEN R_OptionStyleLit
    ELSE R_GeneralStyleLit

NL == Shell("nl", <<"\n">>)

\* "\n".join(parts), on lists of parts
RECURSIVE JoinParts(_)
JoinParts(pp) ==
    IF pp = <<>> THEN <<>>
    ELSE IF Len(pp) = 1 THEN pp[1]
    ELSE pp[1] \o <<NL>> \o JoinParts(Tail(pp))

\* Renderer._get_css_links
R_get_css_links(r) ==
    JoinParts(
        (IF r.need_latex
         THEN << <<Shell("katex_css",
                         R_KatexCssOpenLit \o <<katex_version>> \o R_KatexCssCloseLit)>> >>
         ELSE <<>>)
        \o << <<Shell("style", R_StyleLit[1]),
                Shell("content_type_styles", R_get_content_type_styles(r)),
                Shell("style", R_StyleLit[2]),
                Shell("custom_css", r.custom_css),
                Shell("style_close", R_StyleCloseLit)>>,
              <<Shell("head_close", <<"<", "/head", ">">>)>> >>)

\* Renderer._get_body_content
R_body_content(r) ==
    JoinParts(
        << <<Shell("body_open", <<"<", "body", ">">>)>>,
           <<Shell("container_open", R_ContainerOpenLit)>>,
           <<Shell("text_open", R_TextOpenLit)>>,
           <<Shell("indent", R_ContentIndentLit), Part("content", 0, r.content, <<>>)>>,
           <<Shell("text_close", R_TextCloseLit)>> >>
        \o (IF r.need_plotly /\ HasFigure(r)
            THEN << <<Shell("plotly_container", R_PlotContainerOpenLit)>>,
                    <<Part("plotly_div", 0, R_PlotDivLit, <<>>)>>,
                    <<Shell("plotly_container", R_PlotContainerCloseLit)>> >>
            ELSE <<>>)
        \o << <<Shell("container_close", R_ContainerCloseLit)>> >>)

\* default_config of Renderer._generate_plotly_js
R_default_config ==
    <<Entry("displayModeBar", JFalse), Entry("responsive", JTrue),
      Entry("staticPlot", JFalse), Entry("doubleClick", JFalse),
      Entry("showTips", JFalse), Entry("showAxisDragHandles", JFalse),
      Entry("showAxisRangeEntryBoxes", JFalse),
      Entry("modeBarButtonsToRemove",
            <<"[", "\"", "pan2d", "\"", ",", "\"", "select2d", "\"", ",", "\"", "lasso2d",
              "\"", ",", "\"", "resetScale2d", "\"", ",", "\"", "zoomIn2d", "\"", ",",
              "\"", "zoomOut2d", "\"", "]">>)>>

R_FinalConfig(config) == DictMerge(R_default_config, config)

\* Renderer._generate_plotly_js, for a Renderer that has a figure
R_generate_plotly_js(r) ==
    LET fig == FigureJson(r.plotly_figure)
        config == R_FinalConfig(r.plotly_config)
    IN  IF fig.ok
        THEN Part("plot_js", 0,
                  R_PlotJsLit[1] \o fig.val \o R_PlotJsLit[2] \o DictJson(config) \o R_PlotJsLit[3],
                  config)
        ELSE Part("plot_err", 0,
                  R_PlotErrLit[1] \o JsQuote(fig.msg) \o R_PlotErrLit[2], fig.msg)

\* Renderer._get_js_scripts
R_get_js_scripts(r) ==
    JoinParts(
        (IF r.need_latex
         THEN << <<Shell("katex_js", R_KatexJsOpenLit \o <<katex_version>> \o R_KatexJsMidLit
                                     \o <<katex_version>> \o R_KatexJsCloseLit)>> >>
         ELSE <<>>)
        \o (IF r.need_plotly
            THEN << <<Shell("plotly_lib",
                            R_PlotlyLibOpenLit \o <<plotly_version>> \o R_PlotlyLibCloseLit)>> >>
            ELSE <<>>)
        \o << <<Shell("script_open", R_ScriptOpenLit)>> >>
        \o (IF r.need_latex THEN << <<Shell("katex_call", R_KatexCallLit)>> >> ELSE <<>>)
        \o (IF r.need_plotly /\ HasFigure(r) THEN << <<R_generate_plotly_js(r)>> >> ELSE <<>>)
        \o (IF r.custom_js # <<>>
            THEN << <<Shell("custom_js_indent", R_CustomJsIndentLit),
                      Shell("custom_js", r.custom_js)>> >>
            ELSE <<>>)
        \o << <<Shell("script_close", R_ScriptCloseLit)>> >>)

\* Renderer.render
R_render(r) ==
    JoinParts(<< R_get_html_header(r), R_get_css_links(r), R_body_content(r),
                 R_get_js_scripts(r), <<Shell("doc_close", R_FooterLit)>> >>)

-----------------------------------------------------------------------------
(* HTMLRenderer: the block renderers *)

\* HTMLRenderer._render_text_block
render_text_block(block) ==
    LET renderer == [RendererOf(block.content, <<"Content">>) EXCEPT
                        !.content_type = block.content_type, !.need_latex = TRUE]
        body_content == Text(R_body_content(renderer))
    IN  Ok(Strip(Remove(Remove(body_content, <<"<", "body", ">">>), <<"<", "/body", ">">>)))

\* the <td> or <th> cells of one row
RECURSIVE CellsHtml(_, _, _)
CellsHtml(cells, open, close) ==
    IF cells = <<>> THEN <<>>
    ELSE <<"<", open, ">">> \o html_escape(Str(Head(cells))) \o <<"<", close, ">">>
         \o CellsHtml(Tail(cells), open, close)

\* the loop over the rows of generate_table_html: iterating a row that is not
\* iterable raises TypeError
RECURSIVE RowsHtml(_)
RowsHtml(data) ==
    IF data = <<>> THEN Ok(<<>>)
    ELSE IF Head(data).py # "list"
    THEN Raise(<<"'", "int", "'", " ", "object", " ", "is", " ", "not", " ", "iterable">>)
    ELSE LET rest == RowsHtml(Tail(data)) IN
         IF ~rest.ok THEN rest
         ELSE Ok(<<"<", "tr", ">">> \o CellsHtml(Head(data).cells, "td", "/td")
                 \o <<"<", "/tr", ">">> \o rest.val)

\* HTMLRenderer.generate_table_html
generate_table_html(block) ==
    LET thead == IF block.headers # <<>>
                 THEN <<"<", "thead", ">", "<", "tr", ">">>
                      \o CellsHtml(block.headers, "th", "/th")
                      \o <<"<", "/tr", ">", "<", "/thead", ">">>
                 ELSE <<>>
        rows == RowsHtml(block.data)
    IN  IF ~rows.ok THEN rows
        ELSE Ok(TableOpenLit \o <<"<", "table", ">">> \o thead
                \o <<"<", "tbody", ">">> \o rows.val \o <<"<", "/tbody", ">">>
                \o <<"<", "/table", ">">> \o <<"<", "/div", ">">>)

\* the id had it been the one of Renderer, the same for every chart
DivIdOfRenderer(i) == <<"plotly-div">>

\* f"plotly-div-{i}"
DivId(i) == <<"plotly-div-">> \o DecStr(i)

\* HTMLRenderer._render_plotly_block
render_plotly_block(block, block_id) ==
    Ok(PlotDivOpenLit \o DivId(block_id) \o PlotDivCloseLit)

\* the error block of _render_full_html's except clause
ErrorHtml(i, msg) ==
    ErrorOpenLit \o DecStr(i + 1) \o ErrorSepLit \o html_escape(msg) \o ErrorCloseLit

\* the body of the try of _render_full_html's loop: a block of no known type adds nothing
BlockHtml(block, i) ==
    CASE block.type = "text"   -> render_text_block(block)
      [] block.type = "plotly" -> render_plotly_block(block, i)
      [] block.type = "table"  -> generate_table_html(block)
      [] OTHER                 -> Ok(<<>>)

BlockTag(block) ==
    CASE block.type = "text"   -> "text"
      [] block.type = "plotly" -> "plotly_div"
      [] OTHER                 -> "table"

IsKnownType(block) == block.type \in {"text", "plotly", "table"}

\* the loop's turn had it no try/except: the exception of the block leaves the loop
RenderBlockUnguarded(block, i) ==
    LET r == BlockHtml(block, i) IN
    IF r.ok
    THEN Ok(IF IsKnownType(block) THEN <<Part(BlockTag(block), i, r.val, <<>>)>> ELSE <<>>)
    ELSE r

\* one turn of the loop of _render_full_html, with its try/except: the parts it adds
RenderBlock(block, i) ==
    LET r == BlockHtml(block, i) IN
    IF r.ok
    THEN Ok(IF IsKnownType(block) THEN <<Part(BlockTag(block), i, r.val, <<>>)>> ELSE <<>>)
    ELSE Ok(<<Part("error", i, ErrorHtml(i, r.msg), r.msg)>>)

\* the loop had it inserted each block's HTML at the front of body_html
RECURSIVE RenderBlocksReversedFrom(_, _)
RenderBlocksReversedFrom(blocks, i) ==
    IF i >= Len(blocks) THEN Ok(<<>>)
    ELSE LET r == RenderBlock(blocks[i + 1], i) IN
         IF ~r.ok THEN r
         ELSE LET rest == RenderBlocksReversedFrom(blocks, i + 1) IN
              IF ~rest.ok THEN rest ELSE Ok(rest.val \o r.val)

\* the loop of _render_full_html over enumerate(self.content_blocks), from position i
RECURSIVE RenderBlocksFrom(_, _)
RenderBlocksFrom(blocks, i) ==
    IF i >= Len(blocks) THEN Ok(<<>>)
    ELSE LET r == RenderBlock(blocks[i + 1], i) IN
         IF ~r.ok THEN r
         ELSE LET rest == RenderBlocksFrom(blocks, i + 1) IN
              IF ~rest.ok THEN rest ELSE Ok(r.val \o rest.val)

-----------------------------------------------------------------------------
(* HTMLRenderer: the page shell *)

\* _get_css had it linked the stylesheet once more next to the styles
get_css_linking_twice(need_latex, css) ==
    (IF need_latex
     THEN <<Shell("katex_css", KatexCssOpenLit \o <<katex_version>> \o KatexCssCloseLit)>>
     ELSE <<>>)
    \o <<Shell("style", StyleLit), Shell("custom_css", css), Shell("style_close", StyleCloseLit)>>
    \o (IF need_latex
        THEN <<Shell("katex_css", KatexCssOpenLit \o <<katex_version>> \o KatexCssCloseLit)>>
        ELSE <<>>)

\* HTMLRenderer._get_css
get_css(need_latex, css) ==
    (IF need_latex
     THEN <<Shell("katex_css", KatexCssOpenLit \o <<katex_version>> \o KatexCssCloseLit)>>
     ELSE <<>>)
    \o <<Shell("style", StyleLit), Shell("custom_css", css), Shell("style_close", StyleCloseLit)>>

\* default_config of _get_all_plotly_js
default_config == <<Entry("displayModeBar", JTrue), Entry("responsive", JTrue)>>

FinalConfig(config) == DictMerge(default_config, config)

\* the try of _get_all_plotly_js for the chart at position i
PlotJs(block, i) ==
    LET fig == FigureJson(block.figure)
        final_config == FinalConfig(block.config)
        n == DecStr(i)
    IN  IF ~fig.ok THEN fig
        ELSE Ok(Part("plot_js", i,
                  PlotJsLit[1] \o n \o PlotJsLit[2] \o fig.val \o PlotJsLit[3] \o n \o PlotJsLit[4]
                  \o DictJson(final_config) \o PlotJsLit[5] \o DivId(i) \o PlotJsLit[6] \o n
                  \o PlotJsLit[7] \o n \o PlotJsLit[8] \o n \o PlotJsLit[9] \o DivId(i)
                  \o PlotJsLit[10] \o n \o PlotJsLit[11] \o DivId(i) \o PlotJsLit[12],
                  final_config))

\* ... and its except clause
PlotErrJs(i, msg) ==
    Part("plot_err", i,
         PlotErrLit[1] \o DecStr(i) \o PlotErrLit[2] \o JsQuote(msg) \o PlotErrLit[3]
         \o DecStr(i) \o PlotErrLit[4], msg)

PlotPart(block, i) ==
    LET r == PlotJs(block, i) IN IF r.ok THEN r.val ELSE PlotErrJs(i, r.msg)

ResizePart(i) ==
    Part("resize", i, ResizeLit[1] \o DivId(i) \o ResizeLit[2] \o DecStr(i) \o ResizeLit[3], <<>>)

PlotlyAt(blocks) == SelectSeq([k \in 1..Len(blocks) |-> k - 1],
                              LAMBDA i : blocks[i + 1].type = "plotly")

\* HTMLRenderer._get_all_plotly_js
get_all_plotly_js(blocks) ==
    LET at == PlotlyAt(blocks) IN
    [k \in 1..Len(at) |-> PlotPart(blocks[at[k] + 1], at[k])]
    \o <<Shell("resize_open", ResizeOpenLit)>>
    \o [k \in 1..Len(at) |-> ResizePart(at[k])]
    \o <<Shell("resize_close", ResizeCloseLit)>>

\* HTMLRenderer._get_js
get_js(need_latex, need_plotly, blocks, js) ==
    (IF need_latex
     THEN <<Shell("katex_js", KatexJsOpenLit \o <<katex_version>> \o KatexJsMidLit
                              \o <<katex_version>> \o KatexJsCloseLit)>>
     ELSE <<>>)
    \o (IF need_plotly
        THEN <<Shell("plotly_lib", PlotlyLibOpenLit \o <<plotly_version>> \o PlotlyLibCloseLit)>>
        ELSE <<>>)
    \o <<Shell("script_open", ScriptOpenLit)>>
    \o (IF need_latex THEN <<Shell("katex_call", KatexCallLit)>> ELSE <<>>)
    \o (IF need_plotly THEN get_all_plotly_js(blocks) ELSE <<>>)
    \o (IF js # <<>>
        THEN <<Shell("custom_js_indent", CustomJsIndentLit), Shell("custom_js", js)>>
        ELSE <<>>)
    \o <<Shell("script_close", ScriptCloseLit)>>

\* need_latex had it been true of any block at all
NeedLatexOfAny(blocks) == Len(blocks) > 0

\* need_latex and need_plotly of _render_full_html
NeedLatex(blocks) == \E k \in 1..Len(blocks) : blocks[k].type = "text"
NeedPlotly(blocks) == \E k \in 1..Len(blocks) : blocks[k].type = "plotly"

\* HTMLRenderer._render_full_html
render_full_html(t, css, js, blocks) ==
    LET need_latex == NeedLatex(blocks)
        need_plotly == NeedPlotly(blocks)
        body == RenderBlocksFrom(blocks, 0)
    IN  IF ~body.ok THEN body
        ELSE Ok(<<Shell("doc_open", DocOpenLit), Shell("title", html_escape(t)),
                  Shell("title_close", TitleCloseLit)>>
                \o get_css(need_latex, css)
                \o <<Shell("body_open", BodyOpenLit)>>
                \o body.val
                \o <<Shell("body_close", BodyCloseLit)>>
                \o get_js(need_latex, need_plotly, blocks, js)
                \o <<Shell("doc_close", DocCloseLit)>>)

\* re.sub(r'\s', ' ', s): every whitespace character becomes a space, runs are kept
ReplaceWs(s) == [k \in 1..Len(s) |-> IF IsWs(s[k]) THEN " " ELSE s[k]]

\* re.sub(r'\s+', ' ', s): every maximal run of whitespace becomes one space
CollapseWs(s) ==
    LET keep == SelectSeq([k \in 1..Len(s) |-> k],
                          LAMBDA k : ~IsWs(s[k]) \/ k = 1 \/ ~IsWs(s[k - 1]))
    IN  [j \in 1..Len(keep) |-> IF IsWs(s[keep[j]]) THEN " " ELSE s[keep[j]]]

\* the post-processing of HTMLRenderer.render
Compact(s) == Strip(CollapseWs(s))

\* HTMLRenderer.render(compact), given what its call of _render_full_html did
render(full, compact) ==
    IF ~full.ok THEN full
    ELSE Ok(IF compact THEN Compact(Text(full.val)) ELSE Text(full.val))

-----------------------------------------------------------------------------
(* HTMLRenderer: the public operations *)

\* json.dumps of a str, ensure_ascii=False: an escape sequence is one piece
JsonEscapePiece(p) ==
    CASE p = "\"" -> "\\\""
      [] p = "\\" -> "\\\\"
      [] p = "\n" -> "\\n"
      [] p = "\t" -> "\\t"
      [] p = "\r" -> "\\r"
      [] OTHER    -> p

JsonString(s) == <<"\"">> \o [k \in 1..Len(s) |-> JsonEscapePiece(s[k])] \o <<"\"">>

\* html_content.encode('utf-8'), zlib.compress and base64.b64encode are kept as the
\* names of the encodings applied, innermost first
Utf8Encode(s) == [encoding |-> "utf-8", of |-> s]
ZlibCompress(b) == [encoding |-> "zlib", of |-> b]
B64Encode(b) == [encoding |-> "base64", of |-> b]

\* render_as_json had it dropped its compact argument
render_as_json_never_compact(full, compact) ==
    LET r == render(full, FALSE) IN
    IF ~r.ok THEN r
    ELSE Ok(<<"{", "\"", "html", "\"", ":">> \o JsonString(r.val) \o <<"}">>)

\* HTMLRenderer.render_as_json, given what _render_full_html did
render_as_json(full, compact) ==
    LET r == render(full, compact) IN
    IF ~r.ok THEN r
    ELSE Ok(<<"{", "\"", "html", "\"", ":">> \o JsonString(r.val) \o <<"}">>)

\* render_as_compressed_json had it compressed the document as render() gives it
render_as_compressed_json_of_plain(full) ==
    LET r == render(full, FALSE) IN
    IF ~r.ok THEN r
    ELSE Ok([html_compressed |-> B64Encode(ZlibCompress(Utf8Encode(r.val)))])

\* HTMLRenderer.render_as_compressed_json, given what _render_full_html did: the
\* JSON object it dumps
render_as_compressed_json(full) ==
    LET r == render(full, TRUE) IN
    IF ~r.ok THEN r
    ELSE Ok([html_compressed |-> B64Encode(ZlibCompress(Utf8Encode(r.val)))])

\* the title had it been numbered with idx, from 0
BlockTitleFromZero(t, label, idx) == t \o <<" ", EnDash, " ", label, " ">> \o DecStr(idx)

\* f"{self.title} {EnDash} Text {idx+1}"
BlockTitle(t, label, idx) == t \o <<" ", EnDash, " ", label, " ">> \o DecStr(idx + 1)

\* the try of render_as_blocks' loop had it passed need_latex=True for every kind
BlockDocumentWithMath(t, block, idx) ==
    CASE block.type = "text" ->
            Ok(<<R_render([RendererOf(block.content, BlockTitle(t, "Text", idx)) EXCEPT
                              !.need_latex = TRUE, !.content_type = block.content_type])>>)
      [] block.type = "plotly" ->
            Ok(<<R_render([RendererOf(<<>>, BlockTitle(t, "Chart", idx)) EXCEPT
                              !.need_latex = TRUE,
                              !.need_plotly = TRUE, !.plotly_figure = block.figure,
                              !.plotly_config = block.config])>>)
      [] block.type = "table" ->
            LET table_html == generate_table_html(block) IN
            IF ~table_html.ok THEN table_html
            ELSE Ok(<<R_render([RendererOf(table_html.val, BlockTitle(t, "Table", idx)) EXCEPT
                                   !.need_latex = TRUE])>>)
      [] OTHER -> Ok(<<>>)

\* the body of the try of render_as_blocks' loop
BlockDocument(t, block, idx) ==
    CASE block.type = "text" ->
            Ok(<<R_render([RendererOf(block.content, BlockTitle(t, "Text", idx)) EXCEPT
                              !.need_latex = TRUE, !.content_type = block.content_type])>>)
      [] block.type = "plotly" ->
            Ok(<<R_render([RendererOf(<<>>, BlockTitle(t, "Chart", idx)) EXCEPT
                              !.need_plotly = TRUE, !.plotly_figure = block.figure,
                              !.plotly_config = block.config])>>)
      [] block.type = "table" ->
            LET table_html == generate_table_html(block) IN
            IF ~table_html.ok THEN table_html
            ELSE Ok(<<R_render(RendererOf(table_html.val, BlockTitle(t, "Table", idx)))>>)
      [] OTHER -> Ok(<<>>)

\* the error document of render_as_blocks' except clause
ErrorDocument(t, idx, msg) ==
    R_render(RendererOf(BlockErrorOpenLit \o DecStr(idx + 1) \o <<":", " ">>
                        \o html_escape(msg) \o <<"<", "/div", ">">>,
                        BlockTitle(t, "Error", idx)))

\* render_as_blocks had its except clause passed over the block that failed
RECURSIVE BlockDocumentsSkippingFrom(_, _, _)
BlockDocumentsSkippingFrom(t, blocks, idx) ==
    IF idx >= Len(blocks) THEN <<>>
    ELSE LET r == BlockDocument(t, blocks[idx + 1], idx) IN
         (IF r.ok THEN r.val ELSE <<>>)
         \o BlockDocumentsSkippingFrom(t, blocks, idx + 1)

\* HTMLRenderer.render_as_blocks, from position idx: the documents, as parts
RECURSIVE BlockDocumentsFrom(_, _, _)
BlockDocumentsFrom(t, blocks, idx) ==
    IF idx >= Len(blocks) THEN <<>>
    ELSE LET r == BlockDocument(t, blocks[idx + 1], idx) IN
         (IF r.ok THEN r.val ELSE <<ErrorDocument(t, idx, r.msg)>>)
         \o BlockDocumentsFrom(t, blocks, idx + 1)

\* what render_as_blocks returns: the documents as strings
render_as_blocks(docs) == Ok([k \in 1..Len(docs) |-> Text(docs[k])])

-----------------------------------------------------------------------------
(* The state machine *)

Init ==
    /\ \E c \in Composers :
          /\ title = c.title
          /\ custom_css = c.custom_css
          /\ custom_js = c.custom_js
    /\ content_blocks = <<>>
    /\ op = [name |-> "__init__"]
    /\ ret = Ok("self")
    /\ built = <<>>

Composer == <<title, custom_css, custom_js>>

\* the add_* methods had they inserted at the front of the list
Insert1(block, name) ==
    /\ Len(content_blocks) < MaxBlocks
    /\ content_blocks' = <<block>> \o content_blocks
    /\ op' = [name |-> name]
    /\ ret' = Ok("self")
    /\ built' = <<>>
    /\ UNCHANGED Composer

\* every add_* method: one append, and "return self"
Append1(block, name) ==
    /\ Len(content_blocks) < MaxBlocks
    /\ content_blocks' = Append(content_blocks, block)
    /\ op' = [name |-> name]
    /\ ret' = Ok("self")
    /\ built' = <<>>
    /\ UNCHANGED Composer

\* HTMLRenderer.add_content
add_content ==
    \E a \in ContentArgs :
        Append1([type |-> "text", content |-> a.content, content_type |-> a.content_type],
                "add_content")

\* HTMLRenderer.add_plotly_figure
add_plotly_figure ==
    \E a \in FigureArgs :
        Append1([type |-> "plotly", figure |-> a.fig,
                 config |-> IF a.config.given /\ a.config.dict # <<>> THEN a.config.dict
                            ELSE <<Entry("responsive", JTrue)>>],
                "add_plotly_figure")

\* HTMLRenderer.add_table
add_table ==
    \E a \in TableArgs :
        Append1([type |-> "table", data |-> a.data,
                 headers |-> IF a.headers.given THEN a.headers.list ELSE <<>>],
                "add_table")

\* what the call of _render_full_html in the render methods does
FullHtml == render_full_html(title, custom_css, custom_js, content_blocks)

\* a render method had it consumed the list it rendered
RenderedAndCleared(name, result, docs) ==
    /\ op' = name
    /\ ret' = result
    /\ built' = docs
    /\ content_blocks' = <<>>
    /\ UNCHANGED Composer

Rendered(name, result, docs) ==
    /\ op' = name
    /\ ret' = result
    /\ built' = docs
    /\ UNCHANGED <<Composer, content_blocks>>

\* HTMLRenderer.render
Render ==
    \E compact \in BOOLEAN :
        LET full == FullHtml IN
        Rendered([name |-> "render", compact |-> compact], render(full, compact),
                 IF full.ok THEN <<full.val>> ELSE <<>>)

\* HTMLRenderer.render_as_json
RenderAsJson ==
    \E compact \in BOOLEAN :
        LET full == FullHtml IN
        Rendered([name |-> "render_as_json", compact |-> compact],
                 render_as_json(full, compact), IF full.ok THEN <<full.val>> ELSE <<>>)

\* HTMLRenderer.render_as_compressed_json
RenderAsCompressedJson ==
    LET full == FullHtml IN
    Rendered([name |-> "render_as_compressed_json"], render_as_compressed_json(full),
             IF full.ok THEN <<full.val>> ELSE <<>>)

\* HTMLRenderer.render_as_blocks
RenderAsBlocks ==
    LET docs == BlockDocumentsFrom(title, content_blocks, 0) IN
    Rendered([name |-> "render_as_blocks"], render_as_blocks(docs), docs)

Next ==
    \/ add_content
    \/ add_plotly_figure
    \/ add_table
    \/ Render
    \/ RenderAsJson
    \/ RenderAsCompressedJson
    \/ RenderAsBlocks

Spec == Init /\ [][Next]_vars

-----------------------------------------------------------------------------
(* generate_table_html called on its own, on table blocks of up to MaxRows rows *)

MaxRows == 3

RowChoices ==
    { Row(<<>>),
      Row(<<StrCell(<<"<", "td", ">", "x">>)>>),
      Row(<<IntCell(7), StrCell(<<"a", "&", "amp;", "\"", "'">>)>>),
      Row(<<StrCell(<<"<", "/td", ">", "<", "/tr", ">">>), StrCell(<<>>), IntCell(12)>>),
      IntRow }

RECURSIVE SeqsUpTo(_, _)
SeqsUpTo(S, n) ==
    IF n = 0 THEN {<<>>}
    ELSE LET shorter == SeqsUpTo(S, n - 1)
         IN  shorter \cup {Append(s, x) : s \in {t \in shorter : Len(t) = n - 1}, x \in S}

TableBlocks ==
    { [type |-> "table", data |-> d, headers |-> h] :
        d \in SeqsUpTo(RowChoices, MaxRows),
        h \in {<<>>, <<StrCell(<<"Id">>), StrCell(<<"<", "Val", ">">>)>>} }

InitTable ==
    /\ title = <<"Rendered", " ", "HTML">>
    /\ custom_css = <<>>
    /\ custom_js = <<>>
    /\ content_blocks = <<>>
    /\ op = [name |-> "__init__"]
    /\ ret = Ok("self")
    /\ built = <<>>

\* HTMLRenderer.generate_table_html(block)
GenerateTableHtml ==
    \E block \in TableBlocks :
        /\ op' = [name |-> "generate_table_html", block |-> block]
        /\ ret' = generate_table_html(block)
        /\ built' = <<>>
        /\ UNCHANGED <<Composer, content_blocks>>

NextTable == GenerateTableHtml

SpecTable == InitTable /\ [][NextTable]_vars


-----------------------------------------------------------------------------
(* The render methods on a composer in any state its fields can hold.  The   *)
(* blocks are those the add_* methods store for any content_type, and one    *)
(* the caller put into the public list content_blocks under a type tag of    *)
(* its own.                                                                  *)

MaxDocBlocks == 2

DocBlocks ==
    { [type |-> "text", content_type |-> "question",
       content |-> <<"In", " ", "<", "body", ">", " ", "$x$", "<", "/body", ">", "&", "co">>],
      [type |-> "text", content_type |-> "option", content |-> <<"<", "i", ">", "$y$", "<", "/i", ">">>],
      [type |-> "text", content_type |-> "general", content |-> <<"plain">>],
      [type |-> "text", content_type |-> "hint", content |-> <<"plain">>],
      [type |-> "plotly", figure |-> FigBar, config |-> <<Entry("responsive", JTrue)>>],
      [type |-> "table", data |-> <<Row(<<IntCell(1), StrCell(<<"<", "b", ">">>)>>)>>,
       headers |-> <<StrCell(<<"a", "&", "b">>)>>],
      [type |-> "image", src |-> <<"a.png">>] }

InitDoc ==
    /\ \E c \in Composers :
          /\ title = c.title
          /\ custom_css = c.custom_css
          /\ custom_js = c.custom_js
    /\ content_blocks \in SeqsUpTo(DocBlocks, MaxDocBlocks)
    /\ op = [name |-> "__init__"]
    /\ ret = Ok("self")
    /\ built = <<>>

NextDoc ==
    \/ Render
    \/ RenderAsJson
    \/ RenderAsCompressedJson
    \/ RenderAsBlocks

SpecDoc == InitDoc /\ [][NextDoc]_vars
-----------------------------------------------------------------------------
(* What the claims speak of *)

FullOps == {"render", "render_as_json", "render_as_compressed_json"}
AddOps == {"add_content", "add_plotly_figure", "add_table"}
RenderOps == FullOps \cup {"render_as_blocks"}

IsInfix(pat, s) == \E i \in 1..(Len(s) - Len(pat) + 1) : IsAt(s, pat, i)

Count(s, p) == Cardinality({k \in 1..Len(s) : s[k] = p})

\* the parts of a full document between the opening of the main container and its end
Body(doc) ==
    LET from == CHOOSE k \in 1..Len(doc) : doc[k].tag = "body_open"
        to == CHOOSE k \in 1..Len(doc) : doc[k].tag = "body_close"
    IN  SubSeq(doc, from + 1, to - 1)

\* a red-bordered box
IsRedBox(text) ==
    /\ IsAt(text, <<"<", "div", " ", "style=", "\"">>, 1)
    /\ IsInfix(<<"border:", " ", "1px", " ", "solid", " ", "red;">>, text)

Fails(block, i) == ~BlockHtml(block, i).ok

NumOf(type) == Cardinality({k \in 1..Len(content_blocks) : content_blocks[k].type = type})

\* C1: in render, a block whose HTML generation raises does not make the call raise:
\* the body holds, at that block's position, a red-bordered box with the HTML-escaped
\* error message in place of the block's output, and every other block is rendered at
\* its own position.
C1_ErrorFragmentInPlace ==
    op.name = "render" =>
        /\ ret.ok
        /\ ~op.compact => ret.val = Text(built[1])
        /\ Len(Body(built[1])) = Len(content_blocks)
        /\ \A i \in 1..Len(content_blocks) :
              LET r == BlockHtml(content_blocks[i], i - 1)
                  frag == Body(built[1])[i].text
              IN  IF r.ok THEN frag = r.val /\ ~IsRedBox(frag)
                  ELSE /\ IsRedBox(frag)
                       /\ IsInfix(html_escape(r.msg), frag)
                       /\ Count(frag, "'") = 0

C1_Witness ==
    /\ op.name = "render"
    /\ ret.ok
    /\ \E i \in 1..Len(content_blocks) :
          /\ Fails(content_blocks[i], i - 1)
          /\ i < Len(content_blocks)
          /\ ~Fails(content_blocks[i + 1], i)

\* C2: when a chart block's figure fails to serialize, render does not raise and the
\* body holds a red-bordered error fragment at that chart block's position.
C2_ChartErrorFragment ==
    op.name = "render" =>
        /\ ret.ok
        /\ \A i \in 1..Len(content_blocks) :
              (content_blocks[i].type = "plotly" /\ ~FigureJson(content_blocks[i].figure).ok)
                  => IsRedBox(Body(built[1])[i].text)

LibraryTags ==
    {"/katex.min.css", "/katex.min.js", "/contrib/auto-render.min.js", "/plotly.min.js"}
MathTags == {"/katex.min.css", "/katex.min.js", "/contrib/auto-render.min.js"}

\* C3: the document render returns holds each library tag the blocks require exactly
\* once, and none twice, however many text and chart blocks there are.
C3_LibraryTagsOnce ==
    (op.name = "render" /\ ret.ok) =>
        /\ \A tag \in LibraryTags : Count(ret.val, tag) <= 1
        /\ NumOf("text") > 0 => \A tag \in MathTags : Count(ret.val, tag) = 1
        /\ NumOf("plotly") > 0 => Count(ret.val, "/plotly.min.js") = 1

C3_Witness ==
    /\ op.name = "render"
    /\ ret.ok
    /\ NumOf("plotly") >= 2
    /\ NumOf("text") >= 1
    /\ \A tag \in LibraryTags : Count(ret.val, tag) = 1

\* C4: render emits the math tags and the auto-render call exactly when the list holds
\* a text block, and the chart-library script and the plotting code exactly when it
\* holds a chart block.
C4_LibrariesIffNeeded ==
    (op.name = "render" /\ ret.ok) =>
        /\ \A tag \in MathTags : (Count(ret.val, tag) > 0) <=> (NumOf("text") > 0)
        /\ (Count(ret.val, "renderMathInElement(document.body,") > 0) <=> (NumOf("text") > 0)
        /\ (Count(ret.val, "/plotly.min.js") > 0) <=> (NumOf("plotly") > 0)
        /\ (Count(ret.val, "window.addEventListener(") > 0) <=> (NumOf("plotly") > 0)
        /\ (Count(ret.val, "Plotly.newPlot(") > 0) => (NumOf("plotly") > 0)

C4_Witness ==
    /\ op.name = "render"
    /\ ret.ok
    /\ NumOf("table") > 0
    /\ NumOf("plotly") > 0
    /\ NumOf("text") = 0
    /\ Count(ret.val, "/plotly.min.js") = 1
    /\ Count(ret.val, "/katex.min.css") = 0

TypeOf(name) ==
    CASE name = "add_content" -> "text"
      [] name = "add_plotly_figure" -> "plotly"
      [] OTHER -> "table"

\* C5: a call of add_content, add_plotly_figure or add_table appends exactly one block
\* of the matching type at the end of the list, leaves the blocks before it as they
\* were, and returns the composer itself.
C5_AppendOne ==
    [][op'.name \in AddOps =>
         /\ Len(content_blocks') = Len(content_blocks) + 1
         /\ SubSeq(content_blocks', 1, Len(content_blocks)) = content_blocks
         /\ content_blocks'[Len(content_blocks')].type = TypeOf(op'.name)
         /\ ret'.ok /\ ret'.val = "self"
         /\ UNCHANGED <<title, custom_css, custom_js>>]_vars

\* three appends, the last of a table whose second row is no list: nothing was validated
C5_Witness ==
    /\ op.name = "add_table"
    /\ ret.ok /\ ret.val = "self"
    /\ Len(content_blocks) = 3
    /\ content_blocks[1].type = "text"
    /\ content_blocks[2].type = "plotly"
    /\ content_blocks[3].type = "table"
    /\ \E k \in 1..Len(content_blocks[3].data) : content_blocks[3].data[k].py # "list"

\* the fragment is the one of this block at this position
Shows(frag, block, i) ==
    CASE block.type = "text" ->
            IsAt(frag.text, <<"<", "div", " ", "class=", "\"", "content-container", "\"", ">">>, 1)
            /\ IsInfix(block.content, frag.text)
      [] block.type = "plotly" ->
            IsInfix(<<"id=", "\"">> \o DivId(i - 1) \o <<"\"">>, frag.text)
      [] block.type = "table" /\ Fails(block, i - 1) ->
            IsInfix(<<"Error", " ", "rendering", " ", "block", " ">> \o DecStr(i), frag.text)
      [] OTHER ->
            IsAt(frag.text, TableOpenLit, 1)
            /\ Count(frag.text, "tr") = Len(block.data) + (IF block.headers = <<>> THEN 0 ELSE 1)

\* C6: the body of the document render returns holds one fragment per block, in the
\* order the blocks were appended: none twice, none left out.
C6_FragmentsInOrder ==
    (op.name = "render" /\ ret.ok) =>
        /\ ~op.compact => ret.val = Text(built[1])
        /\ Len(Body(built[1])) = Len(content_blocks)
        /\ \A i \in 1..Len(content_blocks) :
              /\ Body(built[1])[i].idx = i - 1
              /\ Shows(Body(built[1])[i], content_blocks[i], i)

C6_Witness ==
    /\ op.name = "render"
    /\ ret.ok
    /\ Len(content_blocks) = 3
    /\ content_blocks[1].type = "table"
    /\ content_blocks[2].type = "plotly"
    /\ content_blocks[3].type = "text"
    /\ Body(built[1])[3].tag = "text"

\* C7: a render operation changes neither the block list nor the title nor the custom
\* CSS and JS, also when a block fails to render; the list changes only by an append,
\* which leaves the blocks already there as they were.
C7_RenderReadsOnly ==
    [][/\ op'.name \in RenderOps => UNCHANGED <<content_blocks, title, custom_css, custom_js>>
       /\ content_blocks' # content_blocks =>
             /\ op'.name \in AddOps
             /\ Len(content_blocks') > Len(content_blocks)
             /\ SubSeq(content_blocks', 1, Len(content_blocks)) = content_blocks]_vars

C7_Witness ==
    /\ op.name = "render_as_blocks"
    /\ Len(content_blocks) = 2
    /\ Fails(content_blocks[1], 0)
    /\ Len(ret.val) = 2

\* the content of the table cells of the rows of <tbody>, row by row, as a reader of
\* the markup finds them
RECURSIVE CellsFrom(_, _)
CellsFrom(s, i) ==
    IF ~IsAt(s, <<"<", "td", ">">>, i) THEN <<>>
    ELSE LET end == CHOOSE j \in (i + 3)..Len(s) :
                        /\ IsAt(s, <<"<", "/td", ">">>, j)
                        /\ \A k \in (i + 3)..(j - 1) : ~IsAt(s, <<"<", "/td", ">">>, k)
         IN  <<SubSeq(s, i + 3, end - 1)>> \o CellsFrom(s, end + 3)

RowEnd(s, i) ==
    CHOOSE j \in i..Len(s) :
        /\ IsAt(s, <<"<", "/tr", ">">>, j)
        /\ \A k \in i..(j - 1) : ~IsAt(s, <<"<", "/tr", ">">>, k)

RECURSIVE RowsFrom(_, _)
RowsFrom(s, i) ==
    IF ~IsAt(s, <<"<", "tr", ">">>, i) THEN <<>>
    ELSE <<CellsFrom(s, i + 3)>> \o RowsFrom(s, RowEnd(s, i + 3) + 3)

BodyRows(s) ==
    LET from == CHOOSE i \in 1..Len(s) : IsAt(s, <<"<", "tbody", ">">>, i)
    IN  RowsFrom(s, from + 3)

\* what the markup of a cell shows: the character references read back
Shown(cell) ==
    LET refs == {k \in 1..Len(cell) : cell[k] = "&"}
        name(k) == IF k < Len(cell) THEN cell[k + 1] ELSE ""
        char(k) == CASE name(k) = "amp;" -> "&"
                     [] name(k) = "lt;" -> "<"
                     [] name(k) = "gt;" -> ">"
                     [] name(k) = "quot;" -> "\""
                     [] name(k) = "#x27;" -> "'"
                     [] OTHER -> "?"
        keep == SelectSeq([k \in 1..Len(cell) |-> k], LAMBDA k : k = 1 \/ (k - 1) \notin refs)
    IN  [j \in 1..Len(keep) |-> IF keep[j] \in refs THEN char(keep[j]) ELSE cell[keep[j]]]

Markup == {"<", ">", "\"", "'"}

IsEscaped(cell) ==
    /\ \A k \in 1..Len(cell) : cell[k] \notin Markup
    /\ \A k \in 1..Len(cell) :
          cell[k] = "&" => k < Len(cell) /\ cell[k + 1] \in {"amp;", "lt;", "gt;", "quot;", "#x27;"}

AllLists(data) == \A k \in 1..Len(data) : data[k].py = "list"

\* C8: for a table block whose rows are lists, generate_table_html emits in <tbody>
\* one <tr> per input row, in input order, and each of its cells is the HTML-escaped
\* string of the input cell: it holds no markup character, and reads back as str(cell).
C8_TableRowsEscaped ==
    (op.name = "generate_table_html" /\ AllLists(op.block.data)) =>
        /\ ret.ok
        /\ LET rows == BodyRows(ret.val)
               data == op.block.data
           IN  /\ Len(rows) = Len(data)
               /\ \A r \in 1..Len(data) :
                     /\ Len(rows[r]) = Len(data[r].cells)
                     /\ \A c \in 1..Len(data[r].cells) :
                           /\ IsEscaped(rows[r][c])
                           /\ Shown(rows[r][c]) = Str(data[r].cells[c])

C8_Witness ==
    /\ op.name = "generate_table_html"
    /\ ret.ok
    /\ Len(op.block.data) = 3
    /\ \E r \in 1..3 : \E c \in 1..Len(op.block.data[r].cells) :
          /\ op.block.data[r].cells[c].py = "str"
          /\ op.block.data[r].cells[c].v = <<"<", "/td", ">", "<", "/tr", ">">>
    /\ Len(BodyRows(ret.val)) = 3

\* the default interaction options of the specification: toolbar hidden, responsive,
\* double click disabled, mode-bar buttons removed
InteractionDefaults ==
    {"displayModeBar", "responsive", "doubleClick", "modeBarButtonsToRemove"}

\* C9: in every render path the config embedded for a chart is the default interaction
\* options merged with the block's config: each default the caller did not give is
\* there with its default value, and each key the caller gave has the caller's value.
C9_DefaultInteractionOptions ==
    op.name \in RenderOps =>
        \A d \in 1..Len(built) : \A k \in 1..Len(built[d]) :
            built[d][k].tag = "plot_js" =>
                LET embedded == built[d][k].data
                    given == IF op.name = "render_as_blocks" THEN content_blocks[d].config
                             ELSE content_blocks[built[d][k].idx + 1].config
                IN  /\ \A key \in InteractionDefaults :
                          /\ HasKey(embedded, key)
                          /\ ~HasKey(given, key) =>
                                ValueOf(embedded, key) = ValueOf(R_default_config, key)
                    /\ \A j \in 1..Len(given) :
                          /\ HasKey(embedded, given[j].key)
                          /\ ValueOf(embedded, given[j].key) = given[j].val

\* C10: the string render(compact=True) returns has no two whitespace characters in a
\* row and none at its start or end, whatever whitespace the content, the custom CSS
\* and JS and the chart data held.
C10_CompactWhitespace ==
    (op.name = "render" /\ op.compact) =>
        /\ ret.ok
        /\ \A k \in 1..Len(ret.val) :
              IsWs(ret.val[k]) =>
                  /\ ret.val[k] \in WsChars
                  /\ k > 1 /\ k < Len(ret.val)
                  /\ ~IsWs(ret.val[k - 1])

C10_Witness ==
    /\ op.name = "render"
    /\ op.compact
    /\ ret.ok
    /\ custom_css # <<>>
    /\ NumOf("text") > 0
    /\ \E i \in 1..Len(content_blocks) :
          content_blocks[i].type = "plotly" /\ FigureJson(content_blocks[i].figure).ok
    /\ Len(ret.val) < Len(Text(built[1]))

\* base64.b64decode, zlib.decompress: what they give back of what was encoded
B64Decode(b) == IF b.encoding = "base64" THEN b.of ELSE [encoding |-> "invalid", of |-> b]
Inflate(b) == IF b.encoding = "zlib" THEN b.of ELSE [encoding |-> "invalid", of |-> b]

JsonUnescapePiece(p) ==
    CASE p = "\\\"" -> "\""
      [] p = "\\\\" -> "\\"
      [] p = "\\n" -> "\n"
      [] p = "\\t" -> "\t"
      [] p = "\\r" -> "\r"
      [] p = "\\u2013" -> EnDash
      [] OTHER -> p

\* the pieces that cannot stand unescaped inside a JSON string
JsonRaw == {"\"", "\\", "\n", "\t", "\r"}

JsonKeyOpen == <<"{", "\"", "html", "\"", ":", "\"">>

\* the pieces of the string value of the one key of {"html":"..."}
HtmlValue(json) == SubSeq(json, Len(JsonKeyOpen) + 1, Len(json) - 2)

\* C12: render_as_json(compact) returns a JSON object with the one key html, whose
\* string value decodes to what render(compact) returns in the same composer state,
\* with the same compact flag; characters outside ASCII stand in it unescaped.
C12_JsonWrapsRender ==
    op.name = "render_as_json" =>
        /\ ret.ok
        /\ IsAt(ret.val, JsonKeyOpen, 1)
        /\ SubSeq(ret.val, Len(ret.val) - 1, Len(ret.val)) = <<"\"", "}">>
        /\ LET value == HtmlValue(ret.val)
               document == render(FullHtml, op.compact).val
           IN  /\ \A k \in 1..Len(value) : value[k] \notin JsonRaw
               /\ [k \in 1..Len(value) |-> JsonUnescapePiece(value[k])] = document
               /\ Count(value, EnDash) = Count(document, EnDash)

C12_Witness ==
    /\ op.name = "render_as_json"
    /\ op.compact
    /\ ret.ok
    /\ NumOf("text") > 0
    /\ Count(HtmlValue(ret.val), EnDash) = 1
    /\ Count(HtmlValue(ret.val), "\\\"") > 0
    /\ render(FullHtml, TRUE).val # render(FullHtml, FALSE).val

\* the block-kind label of a type tag
KindLabel(type) ==
    CASE type = "text" -> "Text"
      [] type = "plotly" -> "Chart"
      [] OTHER -> "Table"

\* the parts of a document that carry the given tag
PartsOf(doc, tag) == SelectSeq(doc, LAMBDA p : p.tag = tag)

\* what a per-block document holds as its content
ContentOf(block) ==
    CASE block.type = "text" -> block.content
      [] block.type = "plotly" -> <<>>
      [] OTHER -> generate_table_html(block).val

RendersAlone(block, k) == BlockDocument(title, block, k - 1).ok

\* C13: when every block renders without error, render_as_blocks returns one complete
\* HTML document per block, the k-th rendering the k-th block and nothing else, under
\* the title "<composer title> - <Text, Chart or Table by the type tag> <k>".
C13_OneDocumentPerBlock ==
    (/\ op.name = "render_as_blocks"
     /\ \A k \in 1..Len(content_blocks) : RendersAlone(content_blocks[k], k)) =>
        /\ ret.ok
        /\ Len(ret.val) = Len(content_blocks)
        /\ \A k \in 1..Len(content_blocks) :
              LET block == content_blocks[k]
                  heading == title \o <<" ", EnDash, " ", KindLabel(block.type), " ">>
                             \o DecStr(k)
              IN  /\ ret.val[k] = Text(built[k])
                  /\ IsAt(ret.val[k],
                          R_HeaderLit \o html_escape(heading) \o <<"<", "/title", ">">>, 1)
                  /\ SubSeq(ret.val[k], Len(ret.val[k]) - 2, Len(ret.val[k]))
                        = <<"<", "/html", ">">>
                  /\ Count(ret.val[k], "/html") = 1
                  /\ Len(PartsOf(built[k], "content")) = 1
                  /\ PartsOf(built[k], "content")[1].text = ContentOf(block)
                  /\ Len(PartsOf(built[k], "plotly_div"))
                        = (IF block.type = "plotly" THEN 1 ELSE 0)
                  /\ (block.type = "plotly" /\ FigureJson(block.figure).ok) =>
                        /\ Len(PartsOf(built[k], "plot_js")) = 1
                        /\ IsInfix(FigureJson(block.figure).val,
                                   PartsOf(built[k], "plot_js")[1].text)

C13_Witness ==
    /\ op.name = "render_as_blocks"
    /\ Len(content_blocks) = 3
    /\ content_blocks[1].type = "table"
    /\ content_blocks[2].type = "plotly"
    /\ FigureJson(content_blocks[2].figure).ok
    /\ content_blocks[3].type = "text"
    /\ \A k \in 1..3 : RendersAlone(content_blocks[k], k)
    /\ Len(ret.val) = 3
    /\ Count(title, "&") > 0

\* the positions (from 1) of the blocks render_as_blocks makes a document of, in order
KnownAt == SelectSeq([k \in 1..Len(content_blocks) |-> k],
                     LAMBDA k : IsKnownType(content_blocks[k]))

\* the content_type of the Renderer that render_as_blocks builds for a block
PassedContentType(block) ==
    IF block.type = "text" THEN block.content_type ELSE "general"

StyleKinds == {"question", "option", "general"}

Accent(kind) ==
    <<"border-left:", " ", "3px", " ", "solid", " ",
      CASE kind = "question" -> "#007bff;"
        [] kind = "option" -> "#28a745;"
        [] OTHER -> "#6c757d;">>

Badge(letter) == <<"content:", " ", "\"", letter, "\"", ";">>

\* C14: a document of Renderer.render carries exactly one of three style sets:
\* question gives the question accent and the Q badge, option the option accent and
\* the A badge, general and every other content_type the gray accent and no badge.
C14_ContentTypeStyles ==
    op.name = "render_as_blocks" =>
        /\ Len(ret.val) = Len(KnownAt)
        /\ \A d \in 1..Len(ret.val) :
              LET given == PassedContentType(content_blocks[KnownAt[d]])
                  kind == IF given \in {"question", "option"} THEN given ELSE "general"
              IN  /\ \A other \in StyleKinds : IsInfix(Accent(other), ret.val[d]) <=> other = kind
                  /\ IsInfix(Badge("Q"), ret.val[d]) <=> kind = "question"
                  /\ IsInfix(Badge("A"), ret.val[d]) <=> kind = "option"
                  /\ (Count(ret.val[d], ".content-container::before") = 0) <=> kind = "general"

C14_Witness ==
    /\ op.name = "render_as_blocks"
    /\ Len(content_blocks) = 2
    /\ content_blocks[1].type = "text" /\ content_blocks[1].content_type = "hint"
    /\ content_blocks[2].type = "text" /\ content_blocks[2].content_type = "option"
    /\ IsInfix(Accent("general"), ret.val[1])
    /\ IsInfix(Badge("A"), ret.val[2])

\* the fragment that the body of a full document holds for the block at position i
FragmentAt(doc, i) ==
    LET body == Body(doc)
    IN  body[CHOOSE k \in 1..Len(body) : body[k].idx = i - 1]

\* C15: in the document render returns, the container of a text block carries the
\* styling marker of the block's content type: it differs from the container the same
\* content gets under each other content type.
C15_ContainerCarriesMarker ==
    op.name = "render" =>
        \A i \in 1..Len(content_blocks) :
            content_blocks[i].type = "text" =>
                \A other \in StyleKinds \ {content_blocks[i].content_type} :
                    FragmentAt(built[1], i).text
                        # render_text_block([content_blocks[i] EXCEPT !.content_type = other]).val

\* the statements that put the fixed overrides on the layout: the margin, the height of
\* 200, the font size of 11, the legend laid out horizontally
LayoutOverrides ==
    { <<"{l:", " ", "40,", " ", "r:", " ", "20,", " ", "t:", " ", "30,", " ", "b:", " ", "40});">>,
      <<"=", " ", "200;">>,
      <<"=", " ", "11;">>,
      <<"orientation:", " ", "\"", "h", "\"">> }

PlotCallAt(js) == CHOOSE j \in 1..Len(js) : js[j] = "Plotly.newPlot("

\* C16: in the full document as in the per-block documents, the plotting code of every
\* chart puts the fixed layout overrides on the chart's layout before the plot call.
C16_LayoutOverrides ==
    op.name \in RenderOps =>
        \A d \in 1..Len(built) : \A k \in 1..Len(built[d]) :
            built[d][k].tag = "plot_js" =>
                LET js == built[d][k].text IN
                /\ Count(js, "Plotly.newPlot(") = 1
                /\ \A override \in LayoutOverrides :
                      \E j \in 1..(PlotCallAt(js) - 1) : IsAt(js, override, j)

\* the title stands HTML-escaped between <title> and </title>, at the head of the document
TitleEscapedIn(doc, heading) ==
    IsAt(doc, R_HeaderLit \o html_escape(heading) \o <<"<", "/title", ">">>, 1)

\* every header and cell of the table stands HTML-escaped in its <th> or <td>
TableEscapedIn(doc, block) ==
    /\ \A h \in 1..Len(block.headers) :
          IsInfix(<<"<", "th", ">">> \o html_escape(Str(block.headers[h])) \o <<"<", "/th", ">">>,
                  doc)
    /\ \A r \in 1..Len(block.data) : \A c \in 1..Len(block.data[r].cells) :
          IsInfix(<<"<", "td", ">">> \o html_escape(Str(block.data[r].cells[c]))
                  \o <<"<", "/td", ">">>, doc)

\* what a block brings into a document stands there as the rule for its kind says
BlockInterpolatedIn(doc, block) ==
    CASE block.type = "text" -> IsInfix(block.content, doc)
      [] block.type = "table" -> TableEscapedIn(doc, block)
      [] OTHER -> TRUE

\* the escaped parts of C17: titles, table headers and cells
C17_EscapedParts ==
    /\ op.name = "render" =>
          /\ TitleEscapedIn(Text(built[1]), title)
          /\ \A i \in 1..Len(content_blocks) :
                content_blocks[i].type = "table" =>
                    TableEscapedIn(Text(built[1]), content_blocks[i])
    /\ op.name = "render_as_blocks" =>
          \A d \in 1..Len(built) :
              LET block == content_blocks[KnownAt[d]]
                  heading == title \o <<" ", EnDash, " ", KindLabel(block.type), " ">>
                             \o DecStr(KnownAt[d])
              IN  /\ TitleEscapedIn(Text(built[d]), heading)
                  /\ block.type = "table" => TableEscapedIn(Text(built[d]), block)

\* C17: in every document of render and of render_as_blocks, before any compaction, the
\* title and every table header and cell stand HTML-escaped, and the content of every
\* text block and the custom CSS and JS stand as the caller gave them.
C17_EscapedOrVerbatim ==
    /\ C17_EscapedParts
    /\ op.name = "render" =>
          /\ IsInfix(custom_css, Text(built[1]))
          /\ IsInfix(custom_js, Text(built[1]))
          /\ \A i \in 1..Len(content_blocks) :
                BlockInterpolatedIn(Text(built[1]), content_blocks[i])
    /\ op.name = "render_as_blocks" =>
          \A d \in 1..Len(built) :
              BlockInterpolatedIn(Text(built[d]), content_blocks[KnownAt[d]])

\* the four marks of math support: the stylesheet link, the two scripts, the
\* auto-render call
MathMarks == MathTags \cup {"renderMathInElement(document.body,"}

HasMath(doc) == \A mark \in MathMarks : Count(doc, mark) = 1
HasNoMath(doc) == \A mark \in MathMarks : Count(doc, mark) = 0

\* math support in render: exactly when the list holds a text block
MathInRenderIffText ==
    (op.name = "render" /\ ret.ok) =>
        IF NumOf("text") > 0 THEN HasMath(ret.val) ELSE HasNoMath(ret.val)

\* C18 as the specification has it: render_as_blocks enables math support in every
\* per-block document, whatever the kind of the block, and render only when the list
\* holds a text block.
C18_MathInEveryBlockDocument ==
    /\ op.name = "render_as_blocks" => \A d \in 1..Len(ret.val) : HasMath(ret.val[d])
    /\ MathInRenderIffText

\* C18, amended: render_as_blocks enables math support in the document of every text
\* block, whatever its content, and in no document of a chart, a table or a failed
\* block; render enables it exactly when the list holds a text block.
C18_MathInTextDocuments ==
    /\ op.name = "render_as_blocks" =>
          /\ Len(ret.val) = Len(KnownAt)
          /\ \A d \in 1..Len(ret.val) :
                IF content_blocks[KnownAt[d]].type = "text"
                THEN HasMath(ret.val[d])
                ELSE HasNoMath(ret.val[d])
    /\ MathInRenderIffText

C18_Witness ==
    /\ op.name = "render_as_blocks"
    /\ Len(content_blocks) = 3
    /\ content_blocks[1].type = "plotly"
    /\ content_blocks[2].type = "text"
    /\ content_blocks[3].type = "table"
    /\ HasNoMath(ret.val[1])
    /\ HasMath(ret.val[2])
    /\ HasNoMath(ret.val[3])

\* C19: a block whose type tag is none of text, plotly and table is rejected or reported
\* by render and by render_as_blocks: the call raises, or the output holds an error
\* fragment or an error document for it; render_as_blocks never returns fewer documents
\* than there are blocks.
C19_UnknownTagReported ==
    /\ op.name = "render" =>
          \A i \in 1..Len(content_blocks) :
              ~IsKnownType(content_blocks[i]) =>
                  \/ ~ret.ok
                  \/ \E k \in 1..Len(Body(built[1])) :
                        /\ Body(built[1])[k].idx = i - 1
                        /\ IsRedBox(Body(built[1])[k].text)
    /\ op.name = "render_as_blocks" =>
          \/ ~ret.ok
          \/ Len(ret.val) = Len(content_blocks)

\* the number of places of a string where the pattern stands
Occurrences(pat, s) == Cardinality({j \in 1..Len(s) : IsAt(s, pat, j)})

\* the element id plotly-div-i of the chart at 0-based position i
ChartId(i) == <<"plotly-div-">> \o DecStr(i)

ChartPositions == {i \in 0..(Len(content_blocks) - 1) : content_blocks[i + 1].type = "plotly"}

\* C20: in the document render returns, the chart at 0-based position i has the id
\* plotly-div-i: each such id stands on exactly one placeholder and there are no other
\* placeholders, and the plot call and the resize handler of chart i name the id of
\* chart i, whatever blocks lie between the charts.
C20_ChartIdsByPosition ==
    (op.name = "render" /\ ret.ok) =>
        /\ Occurrences(<<"id=", "\"", "plotly-div-">>, ret.val) = Cardinality(ChartPositions)
        /\ Count(ret.val, "Plotly.Plots.resize(") = Cardinality(ChartPositions)
        /\ Count(ret.val, "Plotly.newPlot(")
              = Cardinality({i \in ChartPositions : FigureJson(content_blocks[i + 1].figure).ok})
        /\ \A i \in ChartPositions :
              /\ Occurrences(<<"id=", "\"">> \o ChartId(i) \o <<"\"", " ", "class=">>, ret.val) = 1
              /\ IsInfix(<<"id=", "\"">> \o ChartId(i) \o <<"\"">>, FragmentAt(built[1], i + 1).text)
              /\ Occurrences(<<"Plotly.Plots.resize(", "\"">> \o ChartId(i) \o <<"\"", ");">>,
                             ret.val) = 1
              /\ FigureJson(content_blocks[i + 1].figure).ok =>
                    Occurrences(<<"Plotly.newPlot(", "\"">> \o ChartId(i) \o <<"\"", ",", " ",
                                  "plotlyData_">> \o DecStr(i) \o <<".data,">>, ret.val) = 1

C20_Witness ==
    /\ op.name = "render"
    /\ ret.ok
    /\ ChartPositions = {0, 2}
    /\ content_blocks[2].type = "text"
    /\ \A i \in ChartPositions : FigureJson(content_blocks[i + 1].figure).ok
    /\ Occurrences(<<"Plotly.newPlot(", "\"">> \o ChartId(2) \o <<"\"">>, ret.val) = 1

\* a complete HTML document under the given title
IsDocumentTitled(doc, heading) ==
    /\ TitleEscapedIn(doc, heading)
    /\ SubSeq(doc, Len(doc) - 2, Len(doc)) = <<"<", "/html", ">">>
    /\ Count(doc, "/html") = 1

\* C21: render_as_blocks does not raise when a block fails and returns one document per
\* block: where rendering the k-th block raises, the k-th document is a complete
\* document titled "<composer title> - Error <k>" whose content is a red-bordered box
\* with the HTML-escaped message; the blocks before and after it have their own
\* documents as ever.
C21_ErrorDocumentInPlace ==
    op.name = "render_as_blocks" =>
        /\ ret.ok
        /\ Len(ret.val) = Len(content_blocks)
        /\ \A k \in 1..Len(ret.val) :
              LET block == content_blocks[k]
                  r == BlockDocument(title, block, k - 1)
                  heading(label) == title \o <<" ", EnDash, " ", label, " ">> \o DecStr(k)
                  content == PartsOf(built[k], "content")
              IN  /\ ret.val[k] = Text(built[k])
                  /\ Len(content) = 1
                  /\ IF r.ok
                     THEN /\ IsDocumentTitled(ret.val[k], heading(KindLabel(block.type)))
                          /\ content[1].text = ContentOf(block)
                          /\ ~IsRedBox(content[1].text)
                     ELSE /\ IsDocumentTitled(ret.val[k], heading("Error"))
                          /\ IsRedBox(content[1].text)
                          /\ IsInfix(<<"Error", " ", "rendering", " ", "block", " ">>
                                     \o DecStr(k) \o <<":", " ">> \o html_escape(r.msg)
                                     \o <<"<", "/div", ">">>, content[1].text)
                          /\ Count(content[1].text, "'") = 0

C21_Witness ==
    /\ op.name = "render_as_blocks"
    /\ ret.ok
    /\ Len(content_blocks) = 3
    /\ RendersAlone(content_blocks[1], 1)
    /\ ~RendersAlone(content_blocks[2], 2)
    /\ RendersAlone(content_blocks[3], 3)
    /\ Len(ret.val) = 3
    /\ IsRedBox(PartsOf(built[2], "content")[1].text)

=============================================================================
